---- MODULE Spec2Model ----
(***************************************************************************)
(* Model of obsidian-tasks-cli (src/src/obsidian_tasks/tasks.py, cli.py).  *)
(*                                                                         *)
(* Text is a sequence of one-character strings; a file's content is a      *)
(* sequence of bytes (ASCII bytes are written as their character, the      *)
(* non-ASCII bytes as "xFF", "xEF", "xBF", "xBD").  A path is the sequence *)
(* of its components below the vault root (<<>> is the vault root).        *)
(* The platform is POSIX: os.linesep is "\n" and globbing is case          *)
(* sensitive.                                                              *)
(***************************************************************************)
EXTENDS Integers, Sequences, FiniteSets, TLC

VARIABLES
    line,       \* classifier input: one line of text
    out,        \* classifier output: [fn |-> applied function, val |-> its result]
    tasks,      \* filter input: a list of Task records [file, line_no, raw]
    statuses,   \* filter input: [given |-> FALSE] is None, else the wanted names
    kept,       \* filter output: [done |-> the filter has run, tasks |-> its result]
    files,      \* the regular files below the vault root: path |-> bytes
    dirs,       \* the directories at and below the vault root
    pc,         \* per invocation of append_task_to_note: the step it is at
    note_name,  \* per invocation: argument note_name
    text,       \* per invocation: argument text
    note_path,  \* per invocation: local note_path
    task_line,  \* per invocation: local task_line
    existing,   \* per invocation: local existing
    ret,        \* per invocation: the path returned or the error raised
    calls,      \* number of invocations so far
    returned,   \* the returns of append_task_to_note so far: [name, path], in order
    today,      \* query input: the current date <<year, month, day>>
    result,     \* query output: [fn |-> the query that ran, tasks |-> its result]
    calendar_dir, \* OT_CALENDAR_DIR: [given |-> FALSE] is unset, else its value
    args,       \* the arguments of the command or query that ran
    exit_code,  \* the exit code of the command that ran, -1 before
    applied,    \* the filters applied to result.tasks so far, in order
    stderr      \* the messages written to sys.stderr, in order

lineVars == <<line, out>>
filterVars == <<tasks, statuses, kept>>
vaultVars == <<files, dirs, pc, note_name, text, note_path, task_line, existing, ret, calls, returned>>
queryVars == <<today, result, calendar_dir, args, exit_code, applied, stderr>>
vars == <<lineVars, filterVars, vaultVars, queryVars>>

----------------------------------------------------------------------------
(* Generic helpers *)

Min(a, b) == IF a < b THEN a ELSE b
Max(a, b) == IF a > b THEN a ELSE b

\* Python slice s[a:b] for 0 <= a <= b (0-based, end exclusive, clamped).
Slice(s, a, b) == SubSeq(s, a + 1, Min(b, Len(s)))

\* Python slice s[a:].
SliceFrom(s, a) == SubSeq(s, a + 1, Len(s))

\* Sequences over S of length 0..n.
SeqsUpTo(S, n) == UNION {[1..k -> S] : k \in 0..n}

None == "None"

\* Characters for which str.isspace() holds, among those of the model.
Whitespace == {" ", "\t", "\n", "\r", "\f"}

\* str.lstrip()
RECURSIVE lstrip(_)
lstrip(s) ==
    IF s # <<>> /\ Head(s) \in Whitespace THEN lstrip(Tail(s)) ELSE s

\* str.rstrip()
RECURSIVE rstrip(_)
rstrip(s) ==
    IF s # <<>> /\ s[Len(s)] \in Whitespace THEN rstrip(SubSeq(s, 1, Len(s) - 1)) ELSE s

\* str.strip()
strip(s) == rstrip(lstrip(s))

\* str.startswith(p)
startswith(s, p) == Len(s) >= Len(p) /\ SubSeq(s, 1, Len(p)) = p

\* str.endswith(p)
endswith(s, p) == Len(s) >= Len(p) /\ SubSeq(s, Len(s) - Len(p) + 1, Len(s)) = p

\* str.lower() on one character.
lower(c) ==
    CASE c = "X" -> "x"
      [] c = "A" -> "a"
      [] c = "M" -> "m"
      [] c = "D" -> "d"
      [] OTHER -> c

\* str.lower()
lowerStr(s) == [i \in 1..Len(s) |-> lower(s[i])]

----------------------------------------------------------------------------
(* Line classifier: tasks.py *)

is_markdown_task_line_len5(ln) ==
    LET s == lstrip(ln) IN
    IF ~(startswith(s, <<"-", " ", "[">>) \/ startswith(s, <<"*", " ", "[">>))
    THEN FALSE
    ELSE IF Len(s) < 5
    THEN FALSE
    ELSE s[1] \in {"-", "*"} /\ Slice(s, 1, 3) = <<" ", "[">> /\ s[5] = "]"

is_markdown_task_line(ln) ==
    LET s == lstrip(ln) IN
    IF ~(startswith(s, <<"-", " ", "[">>) \/ startswith(s, <<"*", " ", "[">>))
    THEN FALSE
    ELSE IF Len(s) < 6
    THEN FALSE
    ELSE s[1] \in {"-", "*"} /\ Slice(s, 1, 3) = <<" ", "[">> /\ s[5] = "]"

task_status_from_line_case_sensitive(ln) ==
    IF ~is_markdown_task_line(ln) THEN None
    ELSE LET s == lstrip(ln)
             token == Slice(s, 2, 5)
         IN  IF token = <<"[", " ", "]">> THEN "open"
             ELSE IF token = <<"[", "x", "]">> THEN "done"
             ELSE IF token = <<"[", "-", "]">> THEN "cancelled"
             ELSE IF token = <<"[", ">", "]">> THEN "scheduled"
             ELSE None

task_status_from_line(ln) ==
    IF ~is_markdown_task_line(ln) THEN None
    ELSE LET s == lstrip(ln)
             token == Slice(s, 2, 5)
         IN  IF token = <<"[", " ", "]">> THEN "open"
             ELSE IF lowerStr(token) = <<"[", "x", "]">> THEN "done"
             ELSE IF token = <<"[", "-", "]">> THEN "cancelled"
             ELSE IF token = <<"[", ">", "]">> THEN "scheduled"
             ELSE None

is_priority_task_line_no_trailing_space(ln) ==
    IF ~is_markdown_task_line(ln) THEN FALSE
    ELSE LET s == lstrip(ln) IN Len(s) >= 7 /\ Slice(s, 5, 7) = <<" ", "!">>

is_priority_task_line(ln) ==
    IF ~is_markdown_task_line(ln) THEN FALSE
    ELSE LET s == lstrip(ln) IN Len(s) >= 8 /\ Slice(s, 5, 8) = <<" ", "!", " ">>

----------------------------------------------------------------------------
(* Inputs of the line classifier *)

MaxHeadLen == 6
MaxTailLen == 3

HeadChars == {"-", "*", " ", "[", "]"}
StatusChars == {" ", "x", "X", "-", ">", "?", "]"}
TailChars == {" ", "!", "a"}
Indents == {<<>>, <<" ", " ">>, <<"\t">>}

\* every short line over the characters of the grammar
ShortLines == SeqsUpTo(HeadChars, MaxHeadLen)

\* task-shaped lines: indentation, bullet, checkbox with any status
\* character, and a remainder that may hold the priority marker
TokenLines ==
    {ind \o <<b, " ", "[", c, "]">> \o t :
        ind \in Indents, b \in {"-", "*"}, c \in StatusChars,
        t \in SeqsUpTo(TailChars, MaxTailLen)}

\* lines that are not tasks although they carry a marker
ProseLines == {<<"a", " ", "!">>, <<"[", " ", "]", " ", "!", " ", "a">>,
               <<"-", "[", " ", "]", " ", "!", " ", "a">>,
               <<"-", " ", " ", "[", " ", "]", " ", "!", " ", "a">>}

Lines == ShortLines \cup TokenLines \cup ProseLines

NoOut == [fn |-> "none", val |-> FALSE]

Procs == {1, 2}

NoPath == <<>>
NoReturn == [raised |-> FALSE, value |-> NoPath]

VaultIdle ==
    /\ pc = [p \in Procs |-> "idle"]
    /\ note_name = [p \in Procs |-> <<>>]
    /\ text = [p \in Procs |-> <<>>]
    /\ note_path = [p \in Procs |-> NoPath]
    /\ task_line = [p \in Procs |-> <<>>]
    /\ existing = [p \in Procs |-> <<>>]
    /\ ret = [p \in Procs |-> NoReturn]
    /\ calls = 0
    /\ returned = <<>>

NoFiles == [p \in {} |-> <<>>]

VaultAbsent == files = NoFiles /\ dirs = {} /\ VaultIdle

LineIdle == line = <<>> /\ out = NoOut

NotFiltered == [done |-> FALSE, tasks |-> <<>>]

FilterIdle ==
    /\ tasks = <<>>
    /\ statuses = [given |-> FALSE, values |-> {}]
    /\ kept = NotFiltered

NoResult == [fn |-> "none", tasks |-> <<>>]

\* OT_CALENDAR_DIR is not set
NoCalendar == [given |-> FALSE, value |-> <<>>]

\* --status is not given
NoStatus == [given |-> FALSE, value |-> <<>>]

\* no command has been given
NoArgs ==
    [command |-> "none", status |-> NoStatus, priority_only |-> FALSE,
     unscheduled_only |-> FALSE, paths |-> {}, name |-> <<>>,
     note_path |-> <<>>, include_note_tasks |-> TRUE, offset_days |-> 0]

CommandIdle == args = NoArgs /\ exit_code = -1 /\ applied = <<>> /\ stderr = <<>>

\* date.min
QueryIdle ==
    /\ today = <<1, 1, 1>>
    /\ result = NoResult
    /\ calendar_dir = NoCalendar
    /\ CommandIdle

InitLine ==
    /\ line \in Lines
    /\ out = NoOut
    /\ FilterIdle
    /\ VaultAbsent
    /\ QueryIdle

ApplyIsTaskLine ==
    /\ out = NoOut
    /\ out' = [fn |-> "is_markdown_task_line", val |-> is_markdown_task_line(line)]
    /\ UNCHANGED <<line, filterVars, vaultVars, queryVars>>

ApplyStatus ==
    /\ out = NoOut
    /\ out' = [fn |-> "task_status_from_line", val |-> task_status_from_line(line)]
    /\ UNCHANGED <<line, filterVars, vaultVars, queryVars>>

ApplyIsPriority ==
    /\ out = NoOut
    /\ out' = [fn |-> "is_priority_task_line", val |-> is_priority_task_line(line)]
    /\ UNCHANGED <<line, filterVars, vaultVars, queryVars>>

NextLine == ApplyIsTaskLine \/ ApplyStatus \/ ApplyIsPriority

SpecLine == InitLine /\ [][NextLine]_vars

----------------------------------------------------------------------------
(* Filters: tasks.py *)

\* Task(file=..., line_no=..., raw=...)
Task(f, n, r) == [file |-> f, line_no |-> n, raw |-> r]

filter_tasks_by_statuses_empty_passthrough(ts, sts) ==
    IF ~sts.given THEN ts
    ELSE LET wanted == {s \in sts.values : s # ""} IN
         IF wanted = {} THEN ts
         ELSE SelectSeq(ts, LAMBDA t :
                  LET st == task_status_from_line(t.raw) IN st # None /\ st \in wanted)

filter_tasks_by_statuses(ts, sts) ==
    IF ~sts.given THEN ts
    ELSE LET wanted == {s \in sts.values : s # ""} IN
         IF wanted = {} THEN <<>>
         ELSE SelectSeq(ts, LAMBDA t :
                  LET st == task_status_from_line(t.raw) IN st # None /\ st \in wanted)

MaxTasks == 3

\* one raw line per status character, one of them indented with "*"
RawPool == {<<"-", " ", "[", " ", "]", " ", "a">>,
            <<"-", " ", "[", "x", "]", " ", "a">>,
            <<" ", "*", " ", "[", "X", "]", " ", "a">>,
            <<"-", " ", "[", "-", "]", " ", "a">>,
            <<"-", " ", "[", ">", "]", " ", "a">>,
            <<"-", " ", "[", "?", "]", " ", "a">>}

StatusNames == {"open", "done", "cancelled", "scheduled", ""}

\* lists of tasks as extraction yields them from one note: line i of n.md
TaskLists ==
    UNION {{[i \in 1..k |-> Task(<<"n.md">>, i, raws[i])] : raws \in [1..k -> RawPool]} :
              k \in 0..MaxTasks}

StatusArgs ==
    {[given |-> FALSE, values |-> {}]} \cup
    {[given |-> TRUE, values |-> W] : W \in SUBSET StatusNames}

InitFilter ==
    /\ tasks \in TaskLists
    /\ statuses \in StatusArgs
    /\ kept = NotFiltered
    /\ LineIdle
    /\ VaultAbsent
    /\ QueryIdle

ApplyFilterByStatuses ==
    /\ ~kept.done
    /\ kept' = [done |-> TRUE, tasks |-> filter_tasks_by_statuses(tasks, statuses)]
    /\ UNCHANGED <<tasks, statuses, lineVars, vaultVars, queryVars>>

NextFilter == ApplyFilterByStatuses

SpecFilter == InitFilter /\ [][NextFilter]_vars

----------------------------------------------------------------------------
(* Text files: Path.read_text / Path.write_text with encoding="utf-8"      *)

LF == "\n"
CR == "\r"

\* U+FFFD, the replacement character of errors="replace"
Replacement == "U+FFFD"

\* the bytes of the model that are not ASCII
HighBytes == {"xFF", "xEF", "xBF", "xBD"}

\* the UTF-8 encoding of U+FFFD
ReplacementBytes == <<"xEF", "xBF", "xBD">>

\* bytes.decode("utf-8") succeeds.  0xFF is never valid; 0xEF 0xBF 0xBD is
\* the only multi-byte sequence of the model.
RECURSIVE DecodesStrictly(_)
DecodesStrictly(bs) ==
    IF bs = <<>> THEN TRUE
    ELSE IF Head(bs) \notin HighBytes THEN DecodesStrictly(Tail(bs))
    ELSE IF startswith(bs, ReplacementBytes) THEN DecodesStrictly(SliceFrom(bs, 3))
    ELSE FALSE

\* bytes.decode("utf-8", errors="replace")
RECURSIVE DecodeReplace(_)
DecodeReplace(bs) ==
    IF bs = <<>> THEN <<>>
    ELSE IF Head(bs) \notin HighBytes THEN <<Head(bs)>> \o DecodeReplace(Tail(bs))
    ELSE IF startswith(bs, ReplacementBytes)
         THEN <<Replacement>> \o DecodeReplace(SliceFrom(bs, 3))
    ELSE <<Replacement>> \o DecodeReplace(Tail(bs))

\* str.encode("utf-8")
RECURSIVE EncodeUtf8(_)
EncodeUtf8(s) ==
    IF s = <<>> THEN <<>>
    ELSE (IF Head(s) = Replacement THEN ReplacementBytes ELSE <<Head(s)>>)
         \o EncodeUtf8(Tail(s))

\* text mode with newline=None on reading: "\r\n" and "\r" become "\n"
RECURSIVE UniversalNewlines(_)
UniversalNewlines(s) ==
    IF s = <<>> THEN <<>>
    ELSE IF startswith(s, <<CR, LF>>) THEN <<LF>> \o UniversalNewlines(SliceFrom(s, 2))
    ELSE IF Head(s) = CR THEN <<LF>> \o UniversalNewlines(Tail(s))
    ELSE <<Head(s)>> \o UniversalNewlines(Tail(s))

\* the try/except of tasks.py:153-156 and 273-277: a strict read, and on
\* UnicodeDecodeError a read with errors="replace"
read_text_forgiving(bs) ==
    IF DecodesStrictly(bs)
    THEN UniversalNewlines(DecodeReplace(bs))
    ELSE UniversalNewlines(DecodeReplace(bs))

\* Path.write_text(s, encoding="utf-8"): "\n" is written as os.linesep,
\* which is "\n"
write_text(s) == EncodeUtf8(s)

----------------------------------------------------------------------------
(* Paths: pathlib on POSIX *)

MD == <<".", "m", "d">>

\* ord(c) for the characters that occur in file names
CodePoint(c) ==
    CASE c = " " -> 32
      [] c = "-" -> 45
      [] c = "." -> 46
      [] c = "/" -> 47
      [] c = "0" -> 48
      [] c = "1" -> 49
      [] c = "2" -> 50
      [] c = "3" -> 51
      [] c = "4" -> 52
      [] c = "5" -> 53
      [] c = "6" -> 54
      [] c = "7" -> 55
      [] c = "8" -> 56
      [] c = "9" -> 57
      [] c = "D" -> 68
      [] c = "M" -> 77
      [] c = "X" -> 88
      [] c = "a" -> 97
      [] c = "b" -> 98
      [] c = "d" -> 100
      [] c = "m" -> 109
      [] c = "n" -> 110
      [] c = "x" -> 120
      [] c = "y" -> 121

\* a < b for str
RECURSIVE StrLess(_, _)
StrLess(a, b) ==
    IF b = <<>> THEN FALSE
    ELSE IF a = <<>> THEN TRUE
    ELSE IF Head(a) # Head(b) THEN CodePoint(Head(a)) < CodePoint(Head(b))
    ELSE StrLess(Tail(a), Tail(b))

\* p < q for Path: the parts are compared as a sequence of str
RECURSIVE PathLess(_, _)
PathLess(p, q) ==
    IF q = <<>> THEN FALSE
    ELSE IF p = <<>> THEN TRUE
    ELSE IF Head(p) # Head(q) THEN StrLess(Head(p), Head(q))
    ELSE PathLess(Tail(p), Tail(q))

\* sorted(S) for a set of paths
RECURSIVE SortedPaths(_)
SortedPaths(S) ==
    IF S = {} THEN <<>>
    ELSE LET m == CHOOSE p \in S : \A q \in S \ {p} : PathLess(p, q)
         IN  <<m>> \o SortedPaths(S \ {m})

\* the parts of a relative path string: split at "/", "" and "." dropped
RECURSIVE SplitParts(_, _)
SplitParts(s, cur) ==
    LET flush == IF cur = <<>> \/ cur = <<".">> THEN <<>> ELSE <<cur>> IN
    IF s = <<>> THEN flush
    ELSE IF Head(s) = "/" THEN flush \o SplitParts(Tail(s), <<>>)
    ELSE SplitParts(Tail(s), Append(cur, Head(s)))

\* vault / s, as the parts below the vault root (s is relative, without "..")
JoinVault(s) == SplitParts(s, <<>>)

\* str.rfind(c), 0-based, -1 when absent
RECURSIVE rfind(_, _)
rfind(s, c) ==
    IF s = <<>> THEN -1
    ELSE IF s[Len(s)] = c THEN Len(s) - 1
    ELSE rfind(SubSeq(s, 1, Len(s) - 1), c)

\* PurePath.suffix of a file name
suffix(nm) ==
    LET i == rfind(nm, ".") IN
    IF 0 < i /\ i < Len(nm) - 1 THEN SliceFrom(nm, i) ELSE <<>>

\* PurePath.stem of a file name
stem(nm) ==
    LET i == rfind(nm, ".") IN
    IF 0 < i /\ i < Len(nm) - 1 THEN Slice(nm, 0, i) ELSE nm

\* Path.name
name(p) == p[Len(p)]

\* Path.parent
parent(p) == SubSeq(p, 1, Len(p) - 1)

\* the directories that mkdir(parents=True) makes sure exist for d: the
\* vault root <<>> and every prefix of d
WithParents(d) == {SubSeq(d, 1, k) : k \in 0..Len(d)}

\* fnmatch of a file name against "*.md" (case sensitive on POSIX)
MatchesStarMd(nm) == endswith(nm, MD)

----------------------------------------------------------------------------
(* Note resolver and mutator: tasks.py *)

\* The vault is (fs, ds): fs maps the path of every regular file to its
\* bytes, ds is the set of directories; the vault root exists iff <<>> \in ds.

find_notes_by_name(fs, ds, note) ==
    IF <<>> \notin ds THEN <<>>
    ELSE LET wanted == strip(note) IN
         IF wanted = <<>> THEN <<>>
         ELSE SortedPaths({p \in DOMAIN fs :
                              MatchesStarMd(name(p)) /\ stem(name(p)) = wanted})

Raised(msg) == [raised |-> TRUE, value |-> msg]
Returned(v) == [raised |-> FALSE, value |-> v]

resolve_note_path(fs, ds, note) ==
    LET wanted == strip(note) IN
    IF wanted = <<>> THEN Raised("note name is required")
    ELSE LET matches == find_notes_by_name(fs, ds, wanted) IN
         IF matches # <<>> THEN Returned(matches[1])
         ELSE Returned(JoinVault(wanted \o MD))

OpenPrefix == <<"-", " ", "[", " ", "]", " ">>

normalize_task_text_always_prefix(t) ==
    LET s == strip(t) IN
    IF s = <<>> THEN Raised("task text is required")
    ELSE Returned(OpenPrefix \o s)

normalize_task_text(t) ==
    LET s == strip(t) IN
    IF s = <<>> THEN Raised("task text is required")
    ELSE IF is_markdown_task_line(s) THEN Returned(s)
    ELSE Returned(OpenPrefix \o s)

\* tasks.py:158-160
on_fresh_line(existing_text) ==
    IF existing_text # <<>> /\ ~endswith(existing_text, <<LF>>)
    THEN existing_text \o <<LF>>
    ELSE existing_text

----------------------------------------------------------------------------
(* append_task_to_note as a process: one invocation is the steps resolve,  *)
(* mkdir, normalize and read, write, return.  Every step is one call into  *)
(* the file system; two invocations interleave between steps.              *)

\* a write that leaves the written file alone in the vault
WriteFile_alone(fs, path, bs) == [q \in {path} |-> bs]

\* the bytes of the file at path, fs' after writing bs to it
WriteFile(fs, path, bs) ==
    [q \in DOMAIN fs \cup {path} |-> IF q = path THEN bs ELSE fs[q]]

\* a caller passes note_name and text
Invoke(p, names, texts, max) ==
    /\ pc[p] = "idle"
    /\ calls < max
    /\ \E n \in names, t \in texts :
          /\ note_name' = [note_name EXCEPT ![p] = n]
          /\ text' = [text EXCEPT ![p] = t]
    /\ pc' = [pc EXCEPT ![p] = "resolve"]
    /\ calls' = calls + 1
    /\ UNCHANGED <<files, dirs, note_path, task_line, existing, ret, returned>>
    /\ UNCHANGED <<lineVars, filterVars, queryVars>>

\* tasks.py:146
Resolve(p) ==
    /\ pc[p] = "resolve"
    /\ LET r == resolve_note_path(files, dirs, note_name[p]) IN
       IF r.raised
       THEN /\ ret' = [ret EXCEPT ![p] = r]
            /\ pc' = [pc EXCEPT ![p] = "raised"]
            /\ UNCHANGED note_path
       ELSE /\ note_path' = [note_path EXCEPT ![p] = r.value]
            /\ pc' = [pc EXCEPT ![p] = "mkdir"]
            /\ UNCHANGED ret
    /\ UNCHANGED <<files, dirs, note_name, text, task_line, existing, calls, returned>>
    /\ UNCHANGED <<lineVars, filterVars, queryVars>>

\* tasks.py:147
Mkdir(p) ==
    /\ pc[p] = "mkdir"
    /\ dirs' = dirs \cup WithParents(parent(note_path[p]))
    /\ pc' = [pc EXCEPT ![p] = "normalize"]
    /\ UNCHANGED <<files, note_name, text, note_path, task_line, existing, ret, calls,
                   returned>>
    /\ UNCHANGED <<lineVars, filterVars, queryVars>>

\* tasks.py:149-160
NormalizeAndRead(p) ==
    /\ pc[p] = "normalize"
    /\ LET r == normalize_task_text(text[p]) IN
       IF r.raised
       THEN /\ ret' = [ret EXCEPT ![p] = r]
            /\ pc' = [pc EXCEPT ![p] = "raised"]
            /\ UNCHANGED <<task_line, existing>>
       ELSE /\ task_line' = [task_line EXCEPT ![p] = r.value]
            /\ existing' = [existing EXCEPT ![p] =
                  IF note_path[p] \in DOMAIN files
                  THEN on_fresh_line(read_text_forgiving(files[note_path[p]]))
                  ELSE <<>>]
            /\ pc' = [pc EXCEPT ![p] = "write"]
            /\ UNCHANGED ret
    /\ UNCHANGED <<files, dirs, note_name, text, note_path, calls, returned>>
    /\ UNCHANGED <<lineVars, filterVars, queryVars>>

\* tasks.py:162, an invocation that reads the file again when it writes
WrittenContent_reread(p) ==
    write_text((IF note_path[p] \in DOMAIN files
                THEN on_fresh_line(read_text_forgiving(files[note_path[p]]))
                ELSE <<>>) \o task_line[p] \o <<LF>>)

\* tasks.py:162, the bytes handed to the file
WrittenContent(p) == write_text(existing[p] \o task_line[p] \o <<LF>>)

\* tasks.py:162-163
Write(p) ==
    /\ pc[p] = "write"
    /\ files' = WriteFile(files, note_path[p], WrittenContent(p))
    /\ ret' = [ret EXCEPT ![p] = Returned(note_path[p])]
    /\ returned' = Append(returned, [name |-> note_name[p], path |-> note_path[p]])
    /\ pc' = [pc EXCEPT ![p] = "done"]
    /\ UNCHANGED <<dirs, note_name, text, note_path, task_line, existing, calls>>
    /\ UNCHANGED <<lineVars, filterVars, queryVars>>

\* the call returns or the ValueError propagates: the frame is gone
Return(p) ==
    /\ pc[p] \in {"done", "raised"}
    /\ pc' = [pc EXCEPT ![p] = "idle"]
    /\ note_name' = [note_name EXCEPT ![p] = <<>>]
    /\ text' = [text EXCEPT ![p] = <<>>]
    /\ note_path' = [note_path EXCEPT ![p] = NoPath]
    /\ task_line' = [task_line EXCEPT ![p] = <<>>]
    /\ existing' = [existing EXCEPT ![p] = <<>>]
    /\ ret' = [ret EXCEPT ![p] = NoReturn]
    /\ UNCHANGED <<files, dirs, calls, returned>>
    /\ UNCHANGED <<lineVars, filterVars, queryVars>>

----------------------------------------------------------------------------
(* Vaults and arguments *)

MaxAppends == 2
MaxRaceAppends == 2

Str_x == <<"x">>
Str_x_md == <<"x", ".", "m", "d">>
Str_X_md == <<"X", ".", "m", "d">>
Str_xx_md == <<"x", "x", ".", "m", "d">>
Str_a == <<"a">>

\* prior contents of a note, as bytes: empty, no trailing newline, LF, CRLF,
\* an undecodable byte
Contents == {<<>>,
             <<"#", " ", "a">>,
             <<"a", LF>>,
             <<"a", CR, LF>>,
             <<"a", "xFF", LF>>}

Vault(fs, ds) == [files |-> fs, dirs |-> ds]

InitialVaults ==
    {Vault(NoFiles, {}), Vault(NoFiles, {<<>>})}
    \cup {Vault(<<Str_x_md>> :> c, {<<>>}) : c \in Contents}
    \cup {Vault(<<Str_x_md>> :> <<"#", " ", "a">> @@ <<Str_a, Str_x_md>> :> <<"a", LF>>,
                {<<>>, <<Str_a>>}),
          Vault(<<Str_X_md>> :> <<"a", LF>> @@ <<Str_xx_md>> :> <<"a", LF>>, {<<>>})}

RaceVaults ==
    {Vault(NoFiles, {<<>>}),
     Vault(<<Str_x_md>> :> <<"#", " ", "a">>, {<<>>})}

\* note names: a stem, a stem to trim, blank, a stem below a directory, a
\* stem of no note
NoteNames == {Str_x, <<" ", "x", " ">>, <<>>, <<" ">>, <<"a", "/", "x">>, <<"y">>}

\* task texts: plain, a task line, a task line to trim, a bare token with a
\* trailing blank, blank
Texts == {<<"h">>,
          <<"h", " ">>,
          <<"*", " ", "[", "x", "]", " ", "h">>,
          <<" ", "-", " ", "[", " ", "]", " ", "h", " ">>,
          <<"-", " ", "[", " ", "]", " ">>,
          <<>>,
          <<" ">>}

RaceNames == {Str_x, <<"y">>}
RaceTexts == {<<"h">>, <<"-", " ", "[", "x", "]", " ", "b">>}

InitVault(vaults) ==
    /\ \E v \in vaults : files = v.files /\ dirs = v.dirs
    /\ VaultIdle
    /\ LineIdle
    /\ FilterIdle
    /\ QueryIdle

\* one caller at a time
Init == InitVault(InitialVaults)

Next ==
    \/ Invoke(1, NoteNames, Texts, MaxAppends)
    \/ Resolve(1)
    \/ Mkdir(1)
    \/ NormalizeAndRead(1)
    \/ Write(1)
    \/ Return(1)

Spec == Init /\ [][Next]_vars

\* two callers, no isolation
InitRace == InitVault(RaceVaults)

NextRace ==
    \E p \in Procs :
        \/ Invoke(p, RaceNames, RaceTexts, MaxRaceAppends)
        \/ Resolve(p)
        \/ Mkdir(p)
        \/ NormalizeAndRead(p)
        \/ Write(p)
        \/ Return(p)

SpecRace == InitRace /\ [][NextRace]_vars

----------------------------------------------------------------------------
(* Walker and line splitting: tasks.py *)

\* p lies below the directory r
IsBelow(p, r) == Len(p) > Len(r) /\ SubSeq(p, 1, Len(r)) = r

\* the files of a directory in descending order
iter_markdown_files_descending(fs, ds, root) ==
    IF root \in DOMAIN fs /\ lowerStr(suffix(name(root))) = MD THEN <<root>>
    ELSE IF root \notin DOMAIN fs /\ root \notin ds THEN <<>>
    ELSE IF root \in ds
         THEN LET ps == SortedPaths({p \in DOMAIN fs :
                                        IsBelow(p, root) /\ MatchesStarMd(name(p))})
              IN  [i \in 1..Len(ps) |-> ps[Len(ps) + 1 - i]]
    ELSE <<>>

\* iter_markdown_files(root), root given by its parts below the vault root
iter_markdown_files(fs, ds, root) ==
    IF root \in DOMAIN fs /\ lowerStr(suffix(name(root))) = MD THEN <<root>>
    ELSE IF root \notin DOMAIN fs /\ root \notin ds THEN <<>>
    ELSE IF root \in ds
         THEN SortedPaths({p \in DOMAIN fs : IsBelow(p, root) /\ MatchesStarMd(name(p))})
    ELSE <<>>

\* the line boundaries of str.splitlines(), among the characters of the model
LineBreaks == {LF, CR, "\f"}

\* str.splitlines()
RECURSIVE SplitLines(_, _)
SplitLines(s, cur) ==
    IF s = <<>> THEN (IF cur = <<>> THEN <<>> ELSE <<cur>>)
    ELSE IF startswith(s, <<CR, LF>>) THEN <<cur>> \o SplitLines(SliceFrom(s, 2), <<>>)
    ELSE IF Head(s) \in LineBreaks THEN <<cur>> \o SplitLines(Tail(s), <<>>)
    ELSE SplitLines(Tail(s), Append(cur, Head(s)))

splitlines(s) == SplitLines(s, <<>>)

\* str.rstrip("\n")
RECURSIVE rstrip_newline(_)
rstrip_newline(s) ==
    IF s # <<>> /\ s[Len(s)] = LF THEN rstrip_newline(SubSeq(s, 1, Len(s) - 1)) ELSE s

\* enumerate(lines, start=1)
Enumerate(lines) == [i \in 1..Len(lines) |-> [idx |-> i, line |-> lines[i]]]

\* the Task records of the numbered lines kept by a scan of the file path
TasksOf(path, numbered) ==
    [i \in 1..Len(numbered) |->
        Task(path, numbered[i].idx, rstrip_newline(numbered[i].line))]

\* list.extend over a sequence of lists
RECURSIVE Concat(_)
Concat(ss) == IF ss = <<>> THEN <<>> ELSE Head(ss) \o Concat(Tail(ss))

----------------------------------------------------------------------------
(* Dates and date references: tasks.py:410-424 *)

Digits == {"0", "1", "2", "3", "4", "5", "6", "7", "8", "9"}

\* int(c) of one digit
DigitValue(c) == CodePoint(c) - 48

\* int(s) of a string of digits
RECURSIVE IntOf(_)
IntOf(s) == IF s = <<>> THEN 0 ELSE 10 * IntOf(SubSeq(s, 1, Len(s) - 1)) + DigitValue(s[Len(s)])

IsLeap(y) == y % 4 = 0 /\ (y % 100 # 0 \/ y % 400 = 0)

DaysInMonth(y, m) ==
    IF m = 2 THEN (IF IsLeap(y) THEN 29 ELSE 28)
    ELSE IF m \in {4, 6, 9, 11} THEN 30 ELSE 31

\* date(y, m, d) does not raise ValueError
DateExists(y, m, d) ==
    /\ 1 <= y /\ y <= 9999
    /\ 1 <= m /\ m <= 12
    /\ 1 <= d /\ d <= DaysInMonth(y, m)

\* a < b for date
DateLess(a, b) ==
    \/ a[1] < b[1]
    \/ a[1] = b[1] /\ a[2] < b[2]
    \/ a[1] = b[1] /\ a[2] = b[2] /\ a[3] < b[3]

\* s matches \d{4}-\d{2}-\d{2} in full
IsYmdShape(s) ==
    /\ Len(s) = 10
    /\ \A i \in {1, 2, 3, 4, 6, 7, 9, 10} : s[i] \in Digits
    /\ s[5] = "-" /\ s[8] = "-"

NoDate == [ok |-> FALSE, date |-> <<1, 1, 1>>]

try_parse_ymd(value) ==
    LET s == strip(value) IN
    IF ~IsYmdShape(s) THEN NoDate
    ELSE LET y == IntOf(Slice(s, 0, 4))
             m == IntOf(Slice(s, 5, 7))
             d == IntOf(Slice(s, 8, 10))
         IN  IF DateExists(y, m, d) THEN [ok |-> TRUE, date |-> <<y, m, d>>] ELSE NoDate

\* _DATE_WIKILINK_RE matches at the start of s
DateWikilinkAtStart(s) ==
    /\ Len(s) >= 14
    /\ s[1] = "[" /\ s[2] = "["
    /\ IsYmdShape(Slice(s, 2, 12))
    /\ s[13] = "]" /\ s[14] = "]"

\* _DATE_WIKILINK_RE.findall(s): the groups of the matches, left to right,
\* not overlapping
RECURSIVE DateWikilinks(_)
DateWikilinks(s) ==
    IF s = <<>> THEN <<>>
    ELSE IF DateWikilinkAtStart(s) THEN <<Slice(s, 2, 12)>> \o DateWikilinks(SliceFrom(s, 14))
    ELSE DateWikilinks(Tail(s))

\* tasks.py:495-500 with "<=" for "<"
is_overdue_line_or_today(ln, now) ==
    LET links == DateWikilinks(ln) IN
    \E i \in 1..Len(links) :
        LET d == try_parse_ymd(links[i]) IN d.ok /\ ~DateLess(now, d.date)

\* tasks.py:491-500
is_overdue_line(ln, now) ==
    LET links == DateWikilinks(ln) IN
    \E i \in 1..Len(links) :
        LET d == try_parse_ymd(links[i]) IN d.ok /\ DateLess(d.date, now)

\* tasks.py:483-508, the scan of one file
past_date_backlinks_of_file(fs, md, now) ==
    LET content == read_text_forgiving(fs[md]) IN
    TasksOf(md, SelectSeq(Enumerate(splitlines(content)),
                          LAMBDA e : is_markdown_task_line(e.line)
                                     /\ is_overdue_line(e.line, now)))

\* the "seen" set of tasks.py:504-507 and 537-544: the first task of every
\* (file, line_no) is kept
RECURSIVE DedupFrom(_, _)
DedupFrom(ts, seen) ==
    IF ts = <<>> THEN <<>>
    ELSE LET key == <<Head(ts).file, Head(ts).line_no>> IN
         IF key \in seen THEN DedupFrom(Tail(ts), seen)
         ELSE <<Head(ts)>> \o DedupFrom(Tail(ts), seen \cup {key})

Dedup(ts) == DedupFrom(ts, {})

extract_tasks_with_past_date_backlinks(fs, ds, now) ==
    LET mds == iter_markdown_files(fs, ds, <<>>) IN
    Dedup(Concat([i \in 1..Len(mds) |-> past_date_backlinks_of_file(fs, mds[i], now)]))

----------------------------------------------------------------------------
(* Vaults of the queries *)

MaxNoteLines == 2

Ymd_2026_01_15 == <<"2", "0", "2", "6", "-", "0", "1", "-", "1", "5">>
Ymd_2026_01_16 == <<"2", "0", "2", "6", "-", "0", "1", "-", "1", "6">>
Ymd_2026_01_17 == <<"2", "0", "2", "6", "-", "0", "1", "-", "1", "7">>
Ymd_2025_12_31 == <<"2", "0", "2", "5", "-", "1", "2", "-", "3", "1">>
Ymd_2026_99_99 == <<"2", "0", "2", "6", "-", "9", "9", "-", "9", "9">>
Ymd_2026_02_29 == <<"2", "0", "2", "6", "-", "0", "2", "-", "2", "9">>
Ymd_2024_02_29 == <<"2", "0", "2", "4", "-", "0", "2", "-", "2", "9">>
Ymd_0000_01_01 == <<"0", "0", "0", "0", "-", "0", "1", "-", "0", "1">>

\* [[name]]
Wikilink(nm) == <<"[", "[">> \o nm \o <<"]", "]">>

\* the lines of the notes: task lines with no reference, with references to
\* dates before, at and after the days of Todays, with references that are
\* no dates, with several references, and a line that is no task
RefLines ==
    {OpenPrefix \o <<"a">>,
     OpenPrefix \o Wikilink(Ymd_2026_01_15),
     OpenPrefix \o Wikilink(Ymd_2026_01_16),
     OpenPrefix \o <<"a", " ">> \o Wikilink(Ymd_2026_01_17) \o <<" ", "b">>,
     OpenPrefix \o Wikilink(Ymd_2025_12_31),
     OpenPrefix \o Wikilink(Ymd_2026_99_99),
     OpenPrefix \o Wikilink(Ymd_2026_02_29),
     OpenPrefix \o Wikilink(Ymd_2024_02_29),
     OpenPrefix \o Wikilink(Ymd_0000_01_01),
     OpenPrefix \o Wikilink(Ymd_2026_01_17) \o Wikilink(Ymd_2026_01_15),
     OpenPrefix \o Wikilink(Ymd_2026_99_99) \o <<" ">> \o Wikilink(Ymd_2026_01_16),
     OpenPrefix \o Wikilink(<<"2", "0", "2", "6", "-", "1", "-", "1", "5">>),
     OpenPrefix \o <<"[">> \o Ymd_2026_01_15 \o <<"]">>,
     <<" ", "*", " ", "[", "x", "]", " ">> \o Wikilink(Ymd_2026_01_15) \o <<"b">>,
     <<"a", " ">> \o Wikilink(Ymd_2026_01_15)}

\* the days on which the query runs
Todays == {<<2026, 1, 16>>, <<2026, 3, 1>>}

\* "\n".join(lines) + "\n", as bytes
RECURSIVE JoinLines(_)
JoinLines(ls) == IF ls = <<>> THEN <<>> ELSE Head(ls) \o <<LF>> \o JoinLines(Tail(ls))

Str_n_md == <<"n", ".", "m", "d">>
Str_b_md == <<"b", ".", "m", "d">>

\* the lines of a note below a directory
DeepLines ==
    {OpenPrefix \o <<"a">>,
     OpenPrefix \o Wikilink(Ymd_2026_01_16),
     OpenPrefix \o Wikilink(Ymd_2026_01_17) \o Wikilink(Ymd_2026_01_15)}

\* a vault with the note n.md of up to MaxNoteLines lines and the note
\* a/b.md of one line
QueryVaults ==
    {Vault(<<Str_n_md>> :> JoinLines(ls) @@ <<Str_a, Str_b_md>> :> JoinLines(<<l>>),
           {<<>>, <<Str_a>>}) :
        ls \in UNION {[1..k -> RefLines] : k \in 1..MaxNoteLines}, l \in DeepLines}

InitQuery ==
    /\ \E v \in QueryVaults : files = v.files /\ dirs = v.dirs
    /\ today \in Todays
    /\ result = NoResult
    /\ calendar_dir = NoCalendar
    /\ CommandIdle
    /\ VaultIdle
    /\ LineIdle
    /\ FilterIdle

\* tasks.py:469-510
RunPastDateBacklinks ==
    /\ result = NoResult
    /\ result' = [fn |-> "extract_tasks_with_past_date_backlinks",
                  tasks |-> extract_tasks_with_past_date_backlinks(files, dirs, today)]
    /\ UNCHANGED <<today, calendar_dir, args, exit_code, applied, stderr,
                   vaultVars, lineVars, filterVars>>

NextQuery == RunPastDateBacklinks

SpecQuery == InitQuery /\ [][NextQuery]_vars

----------------------------------------------------------------------------
(* Daily notes and the overdue query: tasks.py:271-332, 427-466, 513-545   *)

DotDot == <<".", ".">>

\* Path.resolve() of a path spelled with ".." parts, in a vault without
\* symbolic links: ".." removes the part before it (the paths of the model
\* stay below the vault root)
RECURSIVE ResolveFrom(_, _)
ResolveFrom(p, acc) ==
    IF p = <<>> THEN acc
    ELSE IF Head(p) = DotDot
         THEN ResolveFrom(Tail(p), IF acc = <<>> THEN acc ELSE parent(acc))
    ELSE ResolveFrom(Tail(p), Append(acc, Head(p)))

resolve(p) == ResolveFrom(p, <<>>)

\* the lookup of p succeeds: every part that ".." leaves is a directory
Reachable(ds, p) ==
    \A k \in 1..Len(p) : p[k] = DotDot => resolve(SubSeq(p, 1, k - 1)) \in ds

\* Path.is_file(), Path.is_dir()
is_file(fs, ds, p) == Reachable(ds, p) /\ resolve(p) \in DOMAIN fs
is_dir(fs, ds, p) == Reachable(ds, p) /\ resolve(p) \in ds

\* root.glob("*.md"): the entries of the directory root that match, spelled
\* below root
glob_star_md(fs, ds, root) ==
    {Append(root, name(q)) :
        q \in {f \in (DOMAIN fs) \cup (ds \ {<<>>}) :
                  parent(f) = resolve(root) /\ MatchesStarMd(name(f))}}

\* str.strip("/")
RECURSIVE strip_slashes(_)
strip_slashes(s) ==
    IF s # <<>> /\ Head(s) = "/" THEN strip_slashes(Tail(s))
    ELSE IF s # <<>> /\ s[Len(s)] = "/" THEN strip_slashes(SubSeq(s, 1, Len(s) - 1))
    ELSE s

\* calendar_dir or ""
OrEmpty(cal) == IF cal.given THEN cal.value ELSE <<>>

\* tasks.py:271-282
extract_tasks_from_file(fs, path) ==
    LET content == read_text_forgiving(fs[resolve(path)]) IN
    TasksOf(path, SelectSeq(Enumerate(splitlines(content)),
                            LAMBDA e : is_markdown_task_line(e.line)))

\* tasks.py:437-439: the directory of the daily notes
daily_notes_root(cal) ==
    LET c == strip_slashes(strip(OrEmpty(cal))) IN
    IF c # <<>> THEN JoinVault(c) ELSE <<>>


\* tasks.py:427-449: the (date, path) pairs, in the order they are yielded
iter_daily_notes(fs, ds, cal) ==
    LET root == daily_notes_root(cal) IN
    IF ~is_dir(fs, ds, root) THEN <<>>
    ELSE LET ps == SortedPaths({p \in glob_star_md(fs, ds, root) : is_file(fs, ds, p)})
             ds_ps == [i \in 1..Len(ps) |->
                          [d |-> try_parse_ymd(stem(name(ps[i]))), p |-> ps[i]]]
         IN  SelectSeq(ds_ps, LAMBDA e : e.d.ok)

\* tasks.py:452-466
extract_tasks_from_past_daily_notes(fs, ds, cal, now) ==
    LET notes == iter_daily_notes(fs, ds, cal)
        past == SelectSeq(notes, LAMBDA e : DateLess(e.d.date, now))
    IN  Concat([i \in 1..Len(past) |-> extract_tasks_from_file(fs, past[i].p)])

\* tasks.py:513-545
extract_overdue_tasks(fs, ds, cal, now) ==
    Dedup(extract_tasks_from_past_daily_notes(fs, ds, cal, now)
          \o extract_tasks_with_past_date_backlinks(fs, ds, now))

----------------------------------------------------------------------------
(* Command line: cli.py *)

\* str.split(sep) for a separator of one character
RECURSIVE SplitAt(_, _, _)
SplitAt(s, sep, cur) ==
    IF s = <<>> THEN <<cur>>
    ELSE IF Head(s) = sep THEN <<cur>> \o SplitAt(Tail(s), sep, <<>>)
    ELSE SplitAt(Tail(s), sep, Append(cur, Head(s)))

split(s, sep) == SplitAt(s, sep, <<>>)

\* a status name given on the command line, as the value it is compared
\* with at tasks.py:223; a name that is no status equals none of them
StatusName(s) ==
    CASE s = <<"o", "p", "e", "n">> -> "open"
      [] s = <<"d", "o", "n", "e">> -> "done"
      [] s = <<"c", "a", "n", "c", "e", "l", "l", "e", "d">> -> "cancelled"
      [] s = <<"s", "c", "h", "e", "d", "u", "l", "e", "d">> -> "scheduled"
      [] OTHER -> "unknown"

\* cli.py:22-26; the list is given as the set of its elements
parse_statuses(raw) ==
    IF ~raw.given THEN [given |-> FALSE, values |-> {}]
    ELSE LET parts == split(raw.value, ",") IN
         [given |-> TRUE,
          values |-> {StatusName(strip(parts[i])) :
                         i \in {j \in 1..Len(parts) : strip(parts[j]) # <<>>}}]

\* tasks.py:87-94
filter_tasks_by_priority(ts, priority_only) ==
    IF ~priority_only THEN ts
    ELSE SelectSeq(ts, LAMBDA t : is_priority_task_line(t.raw))

\* str(path) below the vault root: the parts joined with "/"
RECURSIVE StrOfPath(_)
StrOfPath(p) ==
    IF p = <<>> THEN <<>>
    ELSE IF Len(p) = 1 THEN Head(p)
    ELSE Head(p) \o <<"/">> \o StrOfPath(Tail(p))

\* (str(t.file), t.line_no) < (str(u.file), u.line_no)
SortKeyLess(t, u) ==
    \/ StrLess(StrOfPath(t.file), StrOfPath(u.file))
    \/ StrOfPath(t.file) = StrOfPath(u.file) /\ t.line_no < u.line_no

\* cli.py:334: sorted() is stable, the first of the smallest comes first
RECURSIVE SortedTasks(_)
SortedTasks(ts) ==
    IF ts = <<>> THEN <<>>
    ELSE LET i == CHOOSE k \in 1..Len(ts) :
                     /\ \A j \in 1..Len(ts) : ~SortKeyLess(ts[j], ts[k])
                     /\ \A j \in 1..(k - 1) : SortKeyLess(ts[k], ts[j])
         IN  <<ts[i]>> \o SortedTasks(SubSeq(ts, 1, i - 1) \o SubSeq(ts, i + 1, Len(ts)))

\* cli.py:324-325 without the default
overdue_statuses_no_default(raw) == parse_statuses(raw)

\* cli.py:324-325
overdue_statuses(raw) ==
    IF raw.given THEN parse_statuses(raw) ELSE [given |-> TRUE, values |-> {"open"}]

\* cli.py:300-334: the tasks that _cmd_overdue lists
cmd_overdue(fs, ds, cal, now, a) ==
    SortedTasks(
        filter_tasks_by_priority(
            filter_tasks_by_statuses(extract_overdue_tasks(fs, ds, cal, now),
                                     overdue_statuses(a.status)),
            a.priority_only))

----------------------------------------------------------------------------
(* Vaults of the overdue query *)

MaxDailyNotes == 2

Str_2026_01_15_md == Ymd_2026_01_15 \o MD
Str_2026_01_16_md == Ymd_2026_01_16 \o MD
Str_2026_01_17_md == Ymd_2026_01_17 \o MD

\* the places of the notes: daily notes of three days at the vault root, a
\* daily note in the directory a, and a note that is no daily note
OverduePaths ==
    {<<Str_2026_01_15_md>>, <<Str_2026_01_16_md>>, <<Str_2026_01_17_md>>,
     <<Str_a, Str_2026_01_15_md>>, <<Str_n_md>>}

\* the contents of the notes: one open task; a heading, a done priority
\* task with a reference to a past date and a task of no known status
OverdueContents ==
    {JoinLines(<<OpenPrefix \o <<"a">>>>),
     JoinLines(<<<<"#", " ", "a">>,
                 <<"-", " ", "[", "x", "]", " ", "!", " ">> \o Wikilink(Ymd_2026_01_15),
                 <<"-", " ", "[", "?", "]", " ", "a">>>>)}

\* the vaults with up to MaxDailyNotes notes; the directory a exists
OverdueVaults ==
    {Vault(fs, {<<>>, <<Str_a>>}) :
        fs \in UNION {[P -> OverdueContents] :
                         P \in {Q \in SUBSET OverduePaths : Cardinality(Q) <= MaxDailyNotes}}}

\* OT_CALENDAR_DIR: not set, empty, the directory a in three spellings, the
\* vault root spelled through a, a directory that does not exist
CalendarDirs ==
    {NoCalendar} \cup
    {[given |-> TRUE, value |-> v] :
        v \in {<<>>, <<"a">>, <<" ", "a", "/">>, <<"/", "a">>,
               <<"a", "/", ".", ".">>, <<"b">>}}

OverdueTodays == {<<2026, 1, 16>>, <<2026, 1, 17>>}

\* --status of the overdue command
OverdueStatusArgs ==
    {NoStatus} \cup
    {[given |-> TRUE, value |-> v] :
        v \in {<<>>,
               <<"d", "o", "n", "e">>,
               <<"o", "p", "e", "n", ",", " ", "d", "o", "n", "e">>,
               <<"D", "o", "n", "e", ",">>}}

InitOverdue ==
    /\ \E v \in OverdueVaults : files = v.files /\ dirs = v.dirs
    /\ today \in OverdueTodays
    /\ calendar_dir \in CalendarDirs
    /\ result = NoResult
    /\ CommandIdle
    /\ VaultIdle
    /\ LineIdle
    /\ FilterIdle

\* tasks.py:452-466
RunPastDailyNotes ==
    /\ result = NoResult
    /\ result' = [fn |-> "extract_tasks_from_past_daily_notes",
                  tasks |-> extract_tasks_from_past_daily_notes(files, dirs,
                                                                calendar_dir, today)]
    /\ UNCHANGED <<today, calendar_dir, args, exit_code, applied, stderr,
                   vaultVars, lineVars, filterVars>>

\* tasks.py:513-545
RunOverdue ==
    /\ result = NoResult
    /\ result' = [fn |-> "extract_overdue_tasks",
                  tasks |-> extract_overdue_tasks(files, dirs, calendar_dir, today)]
    /\ UNCHANGED <<today, calendar_dir, args, exit_code, applied, stderr,
                   vaultVars, lineVars, filterVars>>

\* cli.py:300-366, OT_VAULT_PATH being set
CmdOverdue ==
    /\ result = NoResult
    /\ \E st \in OverdueStatusArgs, po \in BOOLEAN :
          args' = [NoArgs EXCEPT !.command = "overdue", !.status = st,
                                 !.priority_only = po]
    /\ result' = [fn |-> "_cmd_overdue",
                  tasks |-> cmd_overdue(files, dirs, calendar_dir, today, args')]
    /\ exit_code' = 0
    /\ UNCHANGED <<today, calendar_dir, applied, stderr, vaultVars, lineVars, filterVars>>

NextOverdue == RunPastDailyNotes \/ RunOverdue \/ CmdOverdue

SpecOverdue == InitOverdue /\ [][NextOverdue]_vars

----------------------------------------------------------------------------
(* The day query and the backlink query: tasks.py:292-384, cli.py:158-203  *)

\* d + timedelta(days=1), d - timedelta(days=1)
NextDay(d) ==
    IF d[3] < DaysInMonth(d[1], d[2]) THEN <<d[1], d[2], d[3] + 1>>
    ELSE IF d[2] < 12 THEN <<d[1], d[2] + 1, 1>>
    ELSE <<d[1] + 1, 1, 1>>

PrevDay(d) ==
    IF d[3] > 1 THEN <<d[1], d[2], d[3] - 1>>
    ELSE IF d[2] > 1 THEN <<d[1], d[2] - 1, DaysInMonth(d[1], d[2] - 1)>>
    ELSE <<d[1] - 1, 12, 31>>

\* d + timedelta(days=k)
RECURSIVE AddDays(_, _)
AddDays(d, k) ==
    IF k = 0 THEN d
    ELSE IF k > 0 THEN AddDays(NextDay(d), k - 1)
    ELSE AddDays(PrevDay(d), k + 1)

\* str(n) of one digit
DigitChar(n) == CHOOSE c \in Digits : DigitValue(c) = n

\* n in decimal, zero-padded to w digits (n < 10^w)
RECURSIVE Padded(_, _)
Padded(n, w) == IF w = 0 THEN <<>> ELSE Append(Padded(n \div 10, w - 1), DigitChar(n % 10))

\* f"{d:%Y-%m-%d}" for a year of four digits
FormatYmd(d) == Padded(d[1], 4) \o <<"-">> \o Padded(d[2], 2) \o <<"-">> \o Padded(d[3], 2)

\* tasks.py:309-313: vault / cal / filename, for a relative cal
resolve_calendar_daily_note_path(cal, for_date) ==
    JoinVault(OrEmpty(cal)) \o <<FormatYmd(for_date) \o MD>>

\* a missing daily note answered with the tasks of the whole vault
extract_tasks_from_today_note_or_vault(fs, ds, cal, for_date) ==
    LET note == resolve_calendar_daily_note_path(cal, for_date)
        mds == iter_markdown_files(fs, ds, <<>>)
    IN  IF ~is_file(fs, ds, note)
        THEN Concat([i \in 1..Len(mds) |-> extract_tasks_from_file(fs, mds[i])])
        ELSE extract_tasks_from_file(fs, note)

\* tasks.py:316-332
extract_tasks_from_today_note(fs, ds, cal, for_date) ==
    LET note == resolve_calendar_daily_note_path(cal, for_date) IN
    IF ~is_file(fs, ds, note) THEN <<>> ELSE extract_tasks_from_file(fs, note)

\* needle in s
Contains(s, needle) ==
    \E k \in 0..(Len(s) - Len(needle)) : SubSeq(s, k + 1, k + Len(needle)) = needle

\* tasks.py:368-382, the scan of one file
backlinked_tasks_of_file(fs, md, needle) ==
    LET content == read_text_forgiving(fs[md]) IN
    TasksOf(md, SelectSeq(Enumerate(splitlines(content)),
                          LAMBDA e : Contains(e.line, needle)
                                     /\ is_markdown_task_line(e.line)))

\* tasks.py:335-384 with the note's own tasks always included
extract_backlinked_tasks_with_self(fs, ds, note, include_note_tasks) ==
    LET needle == Wikilink(stem(name(note)))
        mds == iter_markdown_files(fs, ds, <<>>)
    IN  Dedup(Concat([i \in 1..Len(mds) |-> backlinked_tasks_of_file(fs, mds[i], needle)]))

\* tasks.py:335-384
extract_backlinked_tasks(fs, ds, note, include_note_tasks) ==
    LET needle == Wikilink(stem(name(note)))
        mds == SelectSeq(iter_markdown_files(fs, ds, <<>>),
                         LAMBDA md : include_note_tasks \/ md # resolve(note))
    IN  Dedup(Concat([i \in 1..Len(mds) |-> backlinked_tasks_of_file(fs, mds[i], needle)]))

\* cli.py:169-185 without the tasks of the daily note
day_offset_tasks_backlinks_only(fs, ds, cal, now, a) ==
    LET target == AddDays(now, a.offset_days)
        note == resolve_calendar_daily_note_path(cal, target)
    IN  extract_backlinked_tasks(fs, ds, note, FALSE)

\* cli.py:169-185: the tasks of the day's note, then the tasks that link to it
day_offset_tasks(fs, ds, cal, now, a) ==
    LET target == AddDays(now, a.offset_days)
        note == resolve_calendar_daily_note_path(cal, target)
    IN  extract_tasks_from_today_note(fs, ds, cal, target)
        \o extract_backlinked_tasks(fs, ds, note, FALSE)

\* cli.py:158-203: the tasks that _cmd_day_offset lists; the keys
\* (str(t.file), t.line_no) of cli.py:191 are equal iff the parts are
cmd_day_offset(fs, ds, cal, now, a) ==
    filter_tasks_by_priority(
        filter_tasks_by_statuses(Dedup(day_offset_tasks(fs, ds, cal, now, a)),
                                 parse_statuses(a.status)),
        a.priority_only)

----------------------------------------------------------------------------
(* Vaults of the day query and of the backlink query *)

Str_2025_12_31_md == Ymd_2025_12_31 \o MD

\* daily notes at the vault root and in the directory a, and two notes of
\* the same name
DayPaths ==
    {<<Str_2026_01_16_md>>, <<Str_2026_01_15_md>>, <<Str_2025_12_31_md>>,
     <<Str_a, Str_2026_01_16_md>>, <<Str_n_md>>, <<Str_a, Str_n_md>>}

\* task lines with references to days and to the note n, a task without
\* any, lines that are no tasks with such references, and references that
\* are not exact
DayContents ==
    {JoinLines(<<OpenPrefix \o Wikilink(Ymd_2026_01_16),
                 <<"b", " ">> \o Wikilink(<<"n">>),
                 <<"-", " ", "[", "x", "]", " ", "!", " ">> \o Wikilink(<<"n">>)>>),
     JoinLines(<<<<" ", "*", " ", "[", " ", "]", " ">> \o Wikilink(Ymd_2026_01_15)
                     \o Wikilink(Ymd_2025_12_31),
                 OpenPrefix \o <<"a">>>>),
     JoinLines(<<<<"b">> \o Wikilink(Ymd_2026_01_16),
                 OpenPrefix \o Wikilink(<<" ", "n">>) \o <<"[">> \o Ymd_2026_01_16 \o <<"]">>>>)}

DayVaults ==
    {Vault(fs, {<<>>, <<Str_a>>}) :
        fs \in UNION {[P -> DayContents] :
                         P \in {Q \in SUBSET DayPaths : Cardinality(Q) <= MaxDailyNotes}}}

\* OT_CALENDAR_DIR: not set, the directory a, the vault root spelled
\* through a
DayCalendarDirs ==
    {NoCalendar} \cup
    {[given |-> TRUE, value |-> v] : v \in {<<"a">>, <<"a", "/", ".", ".">>}}

\* days with a daily note for today and tomorrow, and for yesterday only
DayTodays == {<<2026, 1, 15>>, <<2026, 1, 1>>}

\* today, yesterday, tomorrow
Offsets == {0, -1, 1}

\* the filters of the day commands: none, --status done, --priority-only
DayFilters ==
    {[status |-> NoStatus, priority_only |-> FALSE],
     [status |-> [given |-> TRUE, value |-> <<"d", "o", "n", "e">>], priority_only |-> FALSE],
     [status |-> NoStatus, priority_only |-> TRUE]}

\* the notes whose backlinks are asked for: n.md, a/n.md, n.md spelled
\* through a, a daily note
BacklinkTargets ==
    {<<Str_n_md>>, <<Str_a, Str_n_md>>, <<Str_a, DotDot, Str_n_md>>,
     <<Str_2026_01_16_md>>}

InitDay ==
    /\ \E v \in DayVaults : files = v.files /\ dirs = v.dirs
    /\ today \in DayTodays
    /\ calendar_dir \in DayCalendarDirs
    /\ result = NoResult
    /\ CommandIdle
    /\ VaultIdle
    /\ LineIdle
    /\ FilterIdle

\* cli.py:154-245: the commands today, yesterday and tomorrow, OT_VAULT_PATH
\* being set
CmdDayOffset ==
    /\ result = NoResult
    /\ \E k \in Offsets, f \in DayFilters :
          args' = [NoArgs EXCEPT !.command = "day", !.offset_days = k,
                                 !.status = f.status, !.priority_only = f.priority_only]
    /\ result' = [fn |-> "_cmd_day_offset",
                  tasks |-> cmd_day_offset(files, dirs, calendar_dir, today, args')]
    /\ exit_code' = 0
    /\ UNCHANGED <<today, calendar_dir, applied, stderr, vaultVars, lineVars, filterVars>>

\* tasks.py:335-384
RunBacklinked ==
    /\ result = NoResult
    /\ \E n \in BacklinkTargets, inc \in BOOLEAN :
          args' = [NoArgs EXCEPT !.command = "backlinks", !.note_path = n,
                                 !.include_note_tasks = inc]
    /\ result' = [fn |-> "extract_backlinked_tasks",
                  tasks |-> extract_backlinked_tasks(files, dirs, args'.note_path,
                                                     args'.include_note_tasks)]
    /\ UNCHANGED <<today, calendar_dir, exit_code, applied, stderr,
                   vaultVars, lineVars, filterVars>>

NextDayQuery == CmdDayOffset \/ RunBacklinked

SpecDay == InitDay /\ [][NextDayQuery]_vars

----------------------------------------------------------------------------
(* The commands note and all: cli.py *)

\* tasks.py:285-289
extract_tasks(fs, ds, root) ==
    LET mds == iter_markdown_files(fs, ds, root) IN
    Concat([i \in 1..Len(mds) |-> extract_tasks_from_file(fs, mds[i])])

Exit(code, ts, err) == [code |-> code, tasks |-> ts, err |-> err]

\* cli.py:388-390: the tasks of every match, in the order of the matches
note_tasks(fs, matches) ==
    Concat([i \in 1..Len(matches) |-> extract_tasks_from_file(fs, matches[i])])

\* cli.py:369-429: the exit code of _cmd_note, the tasks it lists and what
\* it writes to sys.stderr
cmd_note_empty_is_success(fs, ds, a) ==
    LET wanted == strip(a.name) IN
    IF wanted = <<>>
    THEN Exit(2, <<>>, <<[msg |-> "note name is required", name |-> <<>>]>>)
    ELSE LET matches == find_notes_by_name(fs, ds, wanted) IN
         IF matches = <<>>
         THEN Exit(0, <<>>, <<>>)
         ELSE Exit(0,
                   filter_tasks_by_priority(
                       filter_tasks_by_statuses(note_tasks(fs, matches),
                                                parse_statuses(a.status)),
                       a.priority_only),
                   <<>>)

cmd_note(fs, ds, a) ==
    LET wanted == strip(a.name) IN
    IF wanted = <<>>
    THEN Exit(2, <<>>, <<[msg |-> "note name is required", name |-> <<>>]>>)
    ELSE LET matches == find_notes_by_name(fs, ds, wanted) IN
         IF matches = <<>>
         THEN Exit(2, <<>>, <<[msg |-> "no note found named", name |-> wanted \o MD]>>)
         ELSE Exit(0,
                   filter_tasks_by_priority(
                       filter_tasks_by_statuses(note_tasks(fs, matches),
                                                parse_statuses(a.status)),
                       a.priority_only),
                   <<>>)

\* cli.py:248-263: the tasks that _cmd_all lists
cmd_all(fs, ds, a) ==
    filter_tasks_by_priority(
        filter_tasks_by_statuses(extract_tasks(fs, ds, <<>>), parse_statuses(a.status)),
        a.priority_only)

\* cli.py:578-600: the options that the parser of the command all defines
AllOptions == {"--json", "--color", "-c", "--status", "--priority-only"}

\* the options on the command line of the command all
GivenOptions(a) ==
    (IF a.status.given THEN {"--status"} ELSE {})
    \cup (IF a.priority_only THEN {"--priority-only"} ELSE {})
    \cup (IF a.unscheduled_only THEN {"--unscheduled"} ELSE {})
    \cup (IF a.paths # {} THEN {"--path"} ELSE {})

\* cli.py:681-684: main for the command all; parse_args ends the process
\* with the code 2 and a message on sys.stderr when an option is left over
main_all(fs, ds, a) ==
    LET unrecognized == GivenOptions(a) \ AllOptions IN
    IF unrecognized # {}
    THEN Exit(2, <<>>, <<[msg |-> "unrecognized arguments", name |-> unrecognized]>>)
    ELSE Exit(0, cmd_all(fs, ds, a), <<>>)

----------------------------------------------------------------------------
(* Vaults and command lines of the commands note and all *)

Str_n == <<"n">>
Str_sp_n == <<" ", "n">>
Str_blank == <<" ">>

\* the contents of the day query, and a note without any task
CliContents == DayContents \cup {JoinLines(<<<<"b", " ">> \o Wikilink(<<"n">>)>>)}

\* at most MaxDailyNotes notes of the day query, and no vault at all
CliVaults ==
    {Vault(fs, {<<>>, <<Str_a>>}) :
        fs \in UNION {[P -> CliContents] :
                         P \in {Q \in SUBSET DayPaths : Cardinality(Q) <= MaxDailyNotes}}}
    \cup {Vault(NoFiles, {})}

\* the names asked for: two that notes can have, one padded, one that no
\* note has, one blank, none
AskedNames == {Str_n, Str_sp_n, Ymd_2026_01_15, Str_x, Str_blank, <<>>}

\* the values of --path
PathArgs == {{}, {Str_n_md}, {Str_n_md, <<"a", "/", "n", ".", "m", "d">>}}

InitCli ==
    /\ \E v \in CliVaults : files = v.files /\ dirs = v.dirs
    /\ QueryIdle
    /\ VaultIdle
    /\ LineIdle
    /\ FilterIdle

\* cli.py:369-429, OT_VAULT_PATH being set
CmdNote ==
    /\ result = NoResult
    /\ \E n \in AskedNames, f \in DayFilters :
          args' = [NoArgs EXCEPT !.command = "note", !.name = n,
                                 !.status = f.status, !.priority_only = f.priority_only]
    /\ LET r == cmd_note(files, dirs, args') IN
          /\ result' = [fn |-> "_cmd_note", tasks |-> r.tasks]
          /\ exit_code' = r.code
          /\ stderr' = stderr \o r.err
    /\ UNCHANGED <<today, calendar_dir, applied, vaultVars, lineVars, filterVars>>

\* cli.py:681-684 with 248-297, OT_VAULT_PATH being set
CmdAll ==
    /\ result = NoResult
    /\ \E ps \in PathArgs, u \in BOOLEAN, f \in DayFilters :
          args' = [NoArgs EXCEPT !.command = "all", !.paths = ps, !.unscheduled_only = u,
                                 !.status = f.status, !.priority_only = f.priority_only]
    /\ LET r == main_all(files, dirs, args') IN
          /\ result' = [fn |-> "main", tasks |-> r.tasks]
          /\ exit_code' = r.code
          /\ stderr' = stderr \o r.err
    /\ UNCHANGED <<today, calendar_dir, applied, vaultVars, lineVars, filterVars>>

NextCli == CmdNote \/ CmdAll

SpecCli == InitCli /\ [][NextCli]_vars

----------------------------------------------------------------------------
(* The unscheduled filter and the chain of the filters: tasks.py *)

\* s matches \d{4} in full
IsYearShape(s) == Len(s) = 4 /\ \A i \in 1..4 : s[i] \in Digits

\* tasks.py:13: _CALENDAR_NOTE_STEM_RE.match(s); "$" also matches before a
\* line feed that ends s
CalendarNoteStemMatch(s) ==
    LET body == IF s # <<>> /\ s[Len(s)] = LF THEN SubSeq(s, 1, Len(s) - 1) ELSE s IN
    IsYearShape(body) \/ IsYmdShape(body)

\* tasks.py:17-27
is_calendar_note_path(path) == CalendarNoteStemMatch(stem(name(path)))

\* tasks.py:14: _CALENDAR_WIKILINK_RE matches at the start of s
CalendarWikilinkAtStart(s) ==
    /\ Len(s) >= 8
    /\ s[1] = "[" /\ s[2] = "["
    /\ \/ IsYearShape(Slice(s, 2, 6)) /\ s[7] = "]" /\ s[8] = "]"
       \/ /\ Len(s) >= 14
          /\ IsYmdShape(Slice(s, 2, 12))
          /\ s[13] = "]" /\ s[14] = "]"

\* tasks.py:30-38: _CALENDAR_WIKILINK_RE.search(text)
contains_calendar_backlink(txt) ==
    \E k \in 0..Len(txt) : CalendarWikilinkAtStart(SliceFrom(txt, k))

\* tasks.py:41-44
is_scheduled_task(t) ==
    is_calendar_note_path(t.file) \/ contains_calendar_backlink(t.raw)

\* the tasks before the first scheduled one
filter_tasks_unscheduled_until_scheduled(ts, unscheduled_only) ==
    IF ~unscheduled_only THEN ts
    ELSE LET firsts == {i \in 1..Len(ts) : is_scheduled_task(ts[i])} IN
         IF firsts = {} THEN ts
         ELSE SubSeq(ts, 1, (CHOOSE i \in firsts : \A j \in firsts : i <= j) - 1)

\* tasks.py:47-57
filter_tasks_unscheduled(ts, unscheduled_only) ==
    IF ~unscheduled_only THEN ts
    ELSE SelectSeq(ts, LAMBDA t : ~is_scheduled_task(t))

MaxChainTasks == 2

Str_2025 == <<"2", "0", "2", "5">>
Ymd_2025_01_01 == <<"2", "0", "2", "5", "-", "0", "1", "-", "0", "1">>
DonePriorityPrefix == <<"-", " ", "[", "x", "]", " ", "!", " ">>

\* files and raw lines of tasks: a plain note and a plain line, the
\* references [[yyyy]] and [[yyyy-mm-dd]], references that are no calendar
\* references, the notes yyyy.md and a/yyyy-mm-dd.md, a note of five digits,
\* a note whose stem ends with a line feed
ChainPool ==
    {[file |-> <<Str_n_md>>, raw |-> OpenPrefix \o <<"a">>],
     [file |-> <<Str_n_md>>, raw |-> DonePriorityPrefix \o Wikilink(Str_2025)],
     [file |-> <<Str_n_md>>, raw |-> OpenPrefix \o Wikilink(Ymd_2025_01_01)],
     [file |-> <<Str_n_md>>,
      raw |-> <<"-", " ", "[", " ", "]", " ", "!", " ">>
                  \o Wikilink(<<"P", " ">> \o Str_2025)],
     [file |-> <<Str_n_md>>,
      raw |-> DonePriorityPrefix \o Wikilink(<<"2", "0", "2", "5", "-", "1", "-", "1">>)],
     [file |-> <<Str_2025 \o MD>>, raw |-> DonePriorityPrefix \o <<"a">>],
     [file |-> <<Str_a, Ymd_2025_01_01 \o MD>>, raw |-> OpenPrefix \o <<"a">>],
     [file |-> <<Str_2025 \o <<"1">> \o MD>>, raw |-> DonePriorityPrefix \o <<"a">>],
     [file |-> <<Str_2025 \o <<LF>> \o MD>>, raw |-> OpenPrefix \o <<"a">>]}

\* lists of at most MaxChainTasks tasks, numbered in their order
ChainTaskLists ==
    UNION {{[i \in 1..k |-> Task(ps[i].file, i, ps[i].raw)] : ps \in [1..k -> ChainPool]} :
              k \in 0..MaxChainTasks}

\* no status set, the set of done, an empty set
ChainStatusArgs ==
    {[given |-> FALSE, values |-> {}],
     [given |-> TRUE, values |-> {"done"}],
     [given |-> TRUE, values |-> {}]}

InitChain ==
    /\ tasks \in ChainTaskLists
    /\ statuses \in ChainStatusArgs
    /\ kept = NotFiltered
    /\ \E p, u \in BOOLEAN :
          args = [NoArgs EXCEPT !.command = "filters", !.priority_only = p,
                                !.unscheduled_only = u]
    /\ applied = <<>>
    /\ today = <<1, 1, 1>> /\ result = NoResult /\ calendar_dir = NoCalendar
    /\ exit_code = -1 /\ stderr = <<>>
    /\ LineIdle
    /\ VaultAbsent

\* the filters applied so far
Applied == {applied[i] : i \in 1..Len(applied)}

\* the list that the next filter is given
Current == IF kept.done THEN kept.tasks ELSE tasks

\* tasks.py:208-223, applied to the list at hand
ChainByStatuses ==
    /\ "filter_tasks_by_statuses" \notin Applied
    /\ kept' = [done |-> TRUE, tasks |-> filter_tasks_by_statuses(Current, statuses)]
    /\ applied' = Append(applied, "filter_tasks_by_statuses")
    /\ UNCHANGED <<tasks, statuses, today, result, calendar_dir, args, exit_code, stderr,
                   lineVars, vaultVars>>

\* tasks.py:87-94, applied to the list at hand
ChainByPriority ==
    /\ "filter_tasks_by_priority" \notin Applied
    /\ kept' = [done |-> TRUE,
                tasks |-> filter_tasks_by_priority(Current, args.priority_only)]
    /\ applied' = Append(applied, "filter_tasks_by_priority")
    /\ UNCHANGED <<tasks, statuses, today, result, calendar_dir, args, exit_code, stderr,
                   lineVars, vaultVars>>

\* tasks.py:47-57, applied to the list at hand
ChainUnscheduled ==
    /\ "filter_tasks_unscheduled" \notin Applied
    /\ kept' = [done |-> TRUE,
                tasks |-> filter_tasks_unscheduled(Current, args.unscheduled_only)]
    /\ applied' = Append(applied, "filter_tasks_unscheduled")
    /\ UNCHANGED <<tasks, statuses, today, result, calendar_dir, args, exit_code, stderr,
                   lineVars, vaultVars>>

NextChain == ChainByStatuses \/ ChainByPriority \/ ChainUnscheduled

SpecChain == InitChain /\ [][NextChain]_vars

----------------------------------------------------------------------------
(* Extraction from one file: tasks.py:271-282 *)

MaxExtractLines == 2

FF == "\f"

\* pieces of text: task lines, one of them indented and with trailing
\* blanks, prose, the bare token, a bullet without its blank, nothing
ExtractPieces ==
    {OpenPrefix \o <<"a">>,
     <<" ", "*", " ", "[", "x", "]", " ", "b", " ">>,
     <<"a">>,
     <<"-", " ", "[", " ", "]">>,
     <<"-", "[", " ", "]", " ", "a">>,
     <<>>}

\* what follows a piece: "\n", "\r\n", a form feed, nothing
ExtractEnds == {<<LF>>, <<CR, LF>>, <<FF>>, <<>>}

\* the contents of at most MaxExtractLines pieces
ExtractContents ==
    UNION {{Concat([i \in 1..k |-> ps[i] \o es[i]]) :
                ps \in [1..k -> ExtractPieces], es \in [1..k -> ExtractEnds]} :
              k \in 0..MaxExtractLines}

InitExtract ==
    /\ \E c \in ExtractContents : files = (<<Str_n_md>> :> c)
    /\ dirs = {<<>>}
    /\ QueryIdle
    /\ VaultIdle
    /\ LineIdle
    /\ FilterIdle

\* tasks.py:271-282
RunExtractFile ==
    /\ result = NoResult
    /\ \E p \in DOMAIN files :
          /\ args' = [NoArgs EXCEPT !.command = "extract", !.note_path = p]
          /\ result' = [fn |-> "extract_tasks_from_file",
                        tasks |-> extract_tasks_from_file(files, p)]
    /\ UNCHANGED <<today, calendar_dir, exit_code, applied, stderr,
                   vaultVars, lineVars, filterVars>>

NextExtract == RunExtractFile

SpecExtract == InitExtract /\ [][NextExtract]_vars

----------------------------------------------------------------------------
(* The read queries on one vault: tasks.py *)

MaxWalkFiles == 3

Str_x_MD == <<"x", ".", "M", "D">>
Str_a_md == <<"a", ".", "m", "d">>

\* notes of the stem x at the root and below a, a note whose stem differs
\* in case, one whose stem holds x, one with the extension in capitals, the
\* note a.md beside the directory a, a daily note
WalkPaths ==
    {<<Str_x_md>>, <<Str_X_md>>, <<Str_xx_md>>, <<Str_x_MD>>, <<Str_a, Str_x_md>>,
     <<Str_a_md>>, <<Str_2026_01_15_md>>}

\* a task, and a task that links to the note x and to a day
WalkContents ==
    {JoinLines(<<OpenPrefix \o <<"a">>>>),
     JoinLines(<<<<"a">>,
                 <<"-", " ", "[", "x", "]", " ">> \o Wikilink(Str_x)
                     \o Wikilink(Ymd_2026_01_15)>>)}

\* at most MaxWalkFiles notes in a vault with the directory a, and no vault
WalkVaults ==
    {Vault(fs, {<<>>, <<Str_a>>}) :
        fs \in UNION {[P -> WalkContents] :
                         P \in {Q \in SUBSET WalkPaths : Cardinality(Q) <= MaxWalkFiles}}}
    \cup {Vault(NoFiles, {})}

\* roots of a walk: the vault, a directory, single files, nothing that exists
WalkRoots == {<<>>, <<Str_a>>, <<Str_x_md>>, <<Str_x_MD>>, <<<<"y">>>>}

\* names looked for
WalkNames == {Str_x, <<" ", "x", " ">>, <<"X">>, Str_a, <<"y">>, <<>>, <<" ">>}

InitRead ==
    /\ \E v \in WalkVaults : files = v.files /\ dirs = v.dirs
    /\ today = <<2026, 1, 16>>
    /\ result = NoResult
    /\ calendar_dir = NoCalendar
    /\ CommandIdle
    /\ VaultIdle
    /\ LineIdle
    /\ FilterIdle

\* no read query has been made
NotRead == out = NoOut /\ result = NoResult

\* tasks.py:259-268
ReadIterMarkdownFiles ==
    /\ NotRead
    /\ \E r \in WalkRoots :
          /\ args' = [NoArgs EXCEPT !.command = "read", !.note_path = r]
          /\ out' = [fn |-> "iter_markdown_files",
                     val |-> iter_markdown_files(files, dirs, r)]
    /\ UNCHANGED <<line, today, result, calendar_dir, exit_code, applied, stderr,
                   vaultVars, filterVars>>

\* tasks.py:285-289
ReadExtractTasks ==
    /\ NotRead
    /\ \E r \in WalkRoots :
          /\ args' = [NoArgs EXCEPT !.command = "read", !.note_path = r]
          /\ result' = [fn |-> "extract_tasks", tasks |-> extract_tasks(files, dirs, r)]
    /\ UNCHANGED <<today, calendar_dir, exit_code, applied, stderr,
                   vaultVars, lineVars, filterVars>>

\* tasks.py:387-407
ReadFindNotes ==
    /\ NotRead
    /\ \E n \in WalkNames :
          /\ args' = [NoArgs EXCEPT !.command = "read", !.name = n]
          /\ out' = [fn |-> "find_notes_by_name",
                     val |-> find_notes_by_name(files, dirs, n)]
    /\ UNCHANGED <<line, today, result, calendar_dir, exit_code, applied, stderr,
                   vaultVars, filterVars>>

\* tasks.py:316-332, for yesterday (offset_days = -1) and for today
ReadTodayNote ==
    /\ NotRead
    /\ \E k \in {-1, 0} :
          /\ args' = [NoArgs EXCEPT !.command = "read", !.offset_days = k]
          /\ result' = [fn |-> "extract_tasks_from_today_note",
                        tasks |-> extract_tasks_from_today_note(files, dirs, calendar_dir,
                                                                AddDays(today, k))]
    /\ UNCHANGED <<today, calendar_dir, exit_code, applied, stderr,
                   vaultVars, lineVars, filterVars>>

\* tasks.py:335-384
ReadBacklinked ==
    /\ NotRead
    /\ \E inc \in BOOLEAN :
          /\ args' = [NoArgs EXCEPT !.command = "read", !.note_path = <<Str_x_md>>,
                                    !.include_note_tasks = inc]
          /\ result' = [fn |-> "extract_backlinked_tasks",
                        tasks |-> extract_backlinked_tasks(files, dirs, <<Str_x_md>>, inc)]
    /\ UNCHANGED <<today, calendar_dir, exit_code, applied, stderr,
                   vaultVars, lineVars, filterVars>>

\* tasks.py:513-545
ReadOverdue ==
    /\ NotRead
    /\ args' = [NoArgs EXCEPT !.command = "read"]
    /\ result' = [fn |-> "extract_overdue_tasks",
                  tasks |-> extract_overdue_tasks(files, dirs, calendar_dir, today)]
    /\ UNCHANGED <<today, calendar_dir, exit_code, applied, stderr,
                   vaultVars, lineVars, filterVars>>

NextRead ==
    \/ ReadIterMarkdownFiles
    \/ ReadExtractTasks
    \/ ReadFindNotes
    \/ ReadTodayNote
    \/ ReadBacklinked
    \/ ReadOverdue

SpecRead == InitRead /\ [][NextRead]_vars

----------------------------------------------------------------------------
(* Presentation: cli.py *)

\* cli.py:13-16: the escape sequences, each as one character of the model
ANSI_RED == "ESC[31m"
ANSI_GREEN == "ESC[32m"
ANSI_GREY == "ESC[90m"
ANSI_RESET == "ESC[0m"

\* the number of characters other than "]" that s holds from position i on
NonClosingRun(s, i) ==
    (CHOOSE j \in i..(Len(s) + 1) :
        /\ j = Len(s) + 1 \/ s[j] = "]"
        /\ \A k \in i..(j - 1) : s[k] # "]") - i

\* cli.py:19: the length of the match of _WIKILINK_RE at the start of s, 0
\* when there is none; [^\]]+ takes every character up to the first "]"
WikilinkMatchLen(s) ==
    IF ~startswith(s, <<"[", "[">>) THEN 0
    ELSE LET r == NonClosingRun(s, 3) IN
         IF r >= 1 /\ Len(s) >= r + 4 /\ s[r + 3] = "]" /\ s[r + 4] = "]"
         THEN r + 4 ELSE 0

\* _WIKILINK_RE.sub("", s): the matches are taken from left to right
RECURSIVE RemoveWikilinks(_)
RemoveWikilinks(s) ==
    IF s = <<>> THEN <<>>
    ELSE LET n == WikilinkMatchLen(s) IN
         IF n > 0 THEN RemoveWikilinks(SliceFrom(s, n))
         ELSE <<Head(s)>> \o RemoveWikilinks(Tail(s))

\* str.split(): the words between runs of whitespace
RECURSIVE SplitWords(_, _)
SplitWords(s, cur) ==
    IF s = <<>> THEN (IF cur = <<>> THEN <<>> ELSE <<cur>>)
    ELSE IF Head(s) \in Whitespace
         THEN (IF cur = <<>> THEN <<>> ELSE <<cur>>) \o SplitWords(Tail(s), <<>>)
    ELSE SplitWords(Tail(s), Append(cur, Head(s)))

\* " ".join(words)
RECURSIVE JoinWords(_)
JoinWords(ws) ==
    IF ws = <<>> THEN <<>>
    ELSE IF Len(ws) = 1 THEN Head(ws)
    ELSE Head(ws) \o <<" ">> \o JoinWords(Tail(ws))

\* cli.py:64-72
strip_wikilinks(txt) == JoinWords(SplitWords(RemoveWikilinks(txt), <<>>))

\* str.find(c): the index of the first c, counted from 0, or -1
find(s, c) ==
    IF \E i \in 1..Len(s) : s[i] = c
    THEN (CHOOSE i \in 1..Len(s) : s[i] = c /\ \A j \in 1..(i - 1) : s[j] # c) - 1
    ELSE -1

\* cli.py:265-270: display_text of the listing commands
display_text(raw) ==
    LET s == lstrip(raw)
        i == find(s, "[")
        shown == IF i # -1 THEN strip(SliceFrom(s, i)) ELSE strip(s)
    IN  strip_wikilinks(shown)

\* cli.py:75-97
colorize_checkbox_prefix(txt) ==
    IF Len(txt) < 3 \/ txt[1] # "[" \/ txt[3] # "]" THEN txt
    ELSE LET token == Slice(txt, 0, 3)
             rest == SliceFrom(txt, 3)
         IN  IF token = <<"[", " ", "]">> THEN <<ANSI_RED>> \o token \o <<ANSI_RESET>> \o rest
             ELSE IF lowerStr(token) = <<"[", "x", "]">>
                  THEN <<ANSI_GREEN>> \o token \o <<ANSI_RESET>> \o rest
             ELSE IF token = <<"[", "-", "]">>
                  THEN <<ANSI_GREY>> \o token \o <<ANSI_RESET>> \o rest
             ELSE IF token = <<"[", ">", "]">>
                  THEN <<ANSI_GREY>> \o token \o <<ANSI_RESET>> \o rest
             ELSE txt

MaxDisplayPieces == 3

\* pieces of text: checkboxes of the statuses open, done, cancelled and of
\* no status (a tab, a question mark), a reference, an opened and a closed
\* bracket, a letter, a blank
DisplayPieces ==
    {OpenPrefix,
     <<" ", "*", " ", "[", "X", "]", " ">>,
     <<"-", " ", "[", "-", "]", " ">>,
     <<"-", " ", "[", "\t", "]", " ">>,
     <<"-", " ", "[", "?", "]", " ">>,
     Wikilink(<<"a">>),
     <<"[", "[", "x", "]">>,
     <<"]">>,
     <<"a">>,
     <<" ">>}

DisplayLines ==
    UNION {{Concat(ps) : ps \in [1..k -> DisplayPieces]} : k \in 0..MaxDisplayPieces}

InitDisplay ==
    /\ line \in DisplayLines
    /\ out = NoOut
    /\ FilterIdle
    /\ VaultAbsent
    /\ QueryIdle

\* cli.py:64-72
ApplyStripWikilinks ==
    /\ out = NoOut
    /\ out' = [fn |-> "_strip_wikilinks", val |-> strip_wikilinks(line)]
    /\ UNCHANGED <<line, filterVars, vaultVars, queryVars>>

\* cli.py:265-270 and 291-295 without colours: the text written for a task
ApplyDisplayText ==
    /\ out = NoOut
    /\ is_markdown_task_line(line)
    /\ out' = [fn |-> "display_text", val |-> display_text(line)]
    /\ UNCHANGED <<line, filterVars, vaultVars, queryVars>>

\* cli.py:291-295 with colours: the text written for a task
ApplyColorize ==
    /\ out = NoOut
    /\ is_markdown_task_line(line)
    /\ out' = [fn |-> "colorize_checkbox_prefix",
               val |-> colorize_checkbox_prefix(display_text(line))]
    /\ UNCHANGED <<line, filterVars, vaultVars, queryVars>>

NextDisplay == ApplyStripWikilinks \/ ApplyDisplayText \/ ApplyColorize

SpecDisplay == InitDisplay /\ [][NextDisplay]_vars

----------------------------------------------------------------------------
(* append_task_to_note followed by extract_tasks_from_file: tasks.py:137-163,
   271-282 *)

\* texts of one line and texts that hold a line break
AppendedTexts == {<<"h">>,
                  <<"-", " ", "[", "x", "]", " ", "b">>,
                  <<"h", LF, "k">>,
                  <<"h", LF, "-", " ", "[", " ", "]", " ", "k">>}

\* the note is absent, or holds a heading, or holds a task
AppendedVaults ==
    {Vault(NoFiles, {<<>>}),
     Vault(<<Str_x_md>> :> <<"#", " ", "a">>, {<<>>}),
     Vault(<<Str_x_md>> :> <<"-", " ", "[", " ", "]", " ", "a", LF>>, {<<>>})}

InitAppended == InitVault(AppendedVaults)

NextAppended ==
    \/ Invoke(1, {Str_x}, AppendedTexts, MaxAppends)
    \/ Resolve(1)
    \/ Mkdir(1)
    \/ NormalizeAndRead(1)
    \/ Write(1)
    \/ Return(1)

SpecAppended == InitAppended /\ [][NextAppended]_vars

----------------------------------------------------------------------------
(* Sequences of appends to several notes: tasks.py:97-116, 137-163 *)

MaxStableAppends == 3

\* a stem, the same stem below a directory, another stem
StableNames == {Str_x, <<"a", "/", "x">>, <<"y">>}

StableVaults ==
    {Vault(NoFiles, {<<>>}),
     Vault(<<Str_x_md>> :> <<"a", LF>>, {<<>>}),
     Vault(<<<<"b">>, Str_x_md>> :> <<"a", LF>>, {<<>>, <<<<"b">>>>})}

InitStable == InitVault(StableVaults)

NextStable ==
    \/ Invoke(1, StableNames, {<<"h">>}, MaxStableAppends)
    \/ Resolve(1)
    \/ Mkdir(1)
    \/ NormalizeAndRead(1)
    \/ Write(1)
    \/ Return(1)

SpecStable == InitStable /\ [][NextStable]_vars

----------------------------------------------------------------------------
(* Appends and read queries on one vault: tasks.py:137-163, 259-545 *)

\* a stem, the same stem below a directory, a blank name
FrameNames == {Str_x, <<"a", "/", "x">>, <<" ">>}

\* a text, a blank text
FrameTexts == {<<"h">>, <<" ">>}

\* no vault, and vaults with the note x, a second note of the stem x and a
\* daily note
FrameVaults ==
    {Vault(NoFiles, {}),
     Vault(<<Str_x_md>> :> <<"#", " ", "a">>, {<<>>}),
     Vault(<<Str_x_md>> :> JoinLines(<<OpenPrefix \o Wikilink(Ymd_2026_01_15)>>)
              @@ <<Str_a, Str_x_md>> :> <<"a", LF>>
              @@ <<Str_2026_01_15_md>> :> JoinLines(<<OpenPrefix \o Wikilink(Str_x)>>),
           {<<>>, <<Str_a>>})}

InitFrame ==
    /\ \E v \in FrameVaults : files = v.files /\ dirs = v.dirs
    /\ today = <<2026, 1, 16>>
    /\ result = NoResult
    /\ calendar_dir = NoCalendar
    /\ CommandIdle
    /\ VaultIdle
    /\ LineIdle
    /\ FilterIdle

NextFrame ==
    \/ Invoke(1, FrameNames, FrameTexts, MaxAppends)
    \/ Resolve(1)
    \/ Mkdir(1)
    \/ NormalizeAndRead(1)
    \/ Write(1)
    \/ Return(1)
    \/ ReadIterMarkdownFiles
    \/ ReadExtractTasks
    \/ ReadFindNotes
    \/ ReadTodayNote
    \/ ReadBacklinked
    \/ ReadOverdue

SpecFrame == InitFrame /\ [][NextFrame]_vars

----------------------------------------------------------------------------
(* The task-line grammar, stated on positions: k characters of leading     *)
(* whitespace, then bullet, space, "[", one character, "]".                *)

IndentOf(s, k) ==
    /\ \A i \in 1..k : s[i] \in Whitespace
    /\ k < Len(s) => s[k + 1] \notin Whitespace

HasCheckboxAt(s, k) ==
    /\ Len(s) >= k + 5
    /\ s[k + 1] \in {"-", "*"}
    /\ s[k + 2] = " "
    /\ s[k + 3] = "["
    /\ s[k + 5] = "]"

\* the grammar with no minimum length on the remainder
GrammarNoMinimum(s) ==
    \E k \in 0..Len(s) : IndentOf(s, k) /\ HasCheckboxAt(s, k)

\* the grammar with at least one character after "]"
GrammarNonEmptyRest(s) ==
    \E k \in 0..Len(s) : IndentOf(s, k) /\ HasCheckboxAt(s, k) /\ Len(s) >= k + 6

\* C6 (as claimed): is_task_line(s) is true iff s, leading whitespace
\* removed, starts with bullet, space, "[", one character, "]"; the text
\* after "]" may be empty.
C6_Original ==
    out.fn = "is_markdown_task_line" => (out.val <=> GrammarNoMinimum(line))

\* C6 (amended): is_task_line(s) is true iff s, leading whitespace removed,
\* starts with bullet, space, "[", one character, "]" and at least one
\* more character follows the "]".
C6_TaskLineGrammar ==
    out.fn = "is_markdown_task_line" => (out.val <=> GrammarNonEmptyRest(line))

\* the shortest task line is recognised, with indentation
C6_Witness ==
    /\ out.fn = "is_markdown_task_line"
    /\ out.val
    /\ Len(lstrip(line)) = 6
    /\ Len(line) > 6

\* the status character of a line that has the checkbox at offset k
StatusTable(c) ==
    CASE c = " " -> "open"
      [] c \in {"x", "X"} -> "done"
      [] c = "-" -> "cancelled"
      [] c = ">" -> "scheduled"
      [] OTHER -> None

\* C7: status_of is total: for a task line it returns open, done, cancelled
\* or scheduled by the checkbox character and the no-status result for any
\* other character; for a line that is not a task line it returns None.
C7_StatusTotal ==
    out.fn = "task_status_from_line" =>
        /\ out.val \in {"open", "done", "cancelled", "scheduled", None}
        /\ \A k \in 0..Len(line) :
              IndentOf(line, k) /\ HasCheckboxAt(line, k) /\ Len(line) >= k + 6
                  => out.val = StatusTable(line[k + 4])
        /\ ~GrammarNonEmptyRest(line) => out.val = None

\* an upper-case X is reported as done
C7_Witness ==
    /\ out.fn = "task_status_from_line"
    /\ out.val = "done"
    /\ \E k \in 0..Len(line) : HasCheckboxAt(line, k) /\ line[k + 4] = "X"

\* C8: is_priority(line) is true iff the line is a task line and the three
\* characters right after the closing "]" are space, "!", space.
C8_PriorityStrict ==
    out.fn = "is_priority_task_line" =>
        (out.val <=>
            \E k \in 0..Len(line) :
                /\ IndentOf(line, k) /\ HasCheckboxAt(line, k)
                /\ Len(line) >= k + 8
                /\ line[k + 6] = " " /\ line[k + 7] = "!" /\ line[k + 8] = " ")

\* an indented task line with the marker is priority
C8_Witness ==
    /\ out.fn = "is_priority_task_line"
    /\ out.val
    /\ line[1] \in Whitespace

----------------------------------------------------------------------------
(* Status filter *)

\* the positions of ts whose task has a status among W
KeptIndices(ts, W) ==
    {i \in 1..Len(ts) : StatusTable(lstrip(ts[i].raw)[4]) \in W}

\* res lists exactly the elements of ts at the positions I, in order
IsSelection(res, ts, I) ==
    /\ Len(res) = Cardinality(I)
    /\ \A i \in I : res[Cardinality({j \in I : j <= i})] = ts[i]

\* C9: filter_by_statuses returns the input unchanged when the wanted set
\* is None, the empty list when it is empty, and otherwise exactly the
\* tasks whose status is in the wanted set, in their original order; a task
\* with an unrecognized checkbox character is dropped by every wanted set.
C9_FilterByStatuses ==
    kept.done =>
        /\ ~statuses.given => kept.tasks = tasks
        /\ statuses.given /\ statuses.values = {} => kept.tasks = <<>>
        /\ statuses.given => IsSelection(kept.tasks, tasks, KeptIndices(tasks, statuses.values))
        /\ statuses.given =>
              \A i \in 1..Len(kept.tasks) : lstrip(kept.tasks[i].raw)[4] # "?"

\* a filter on two statuses keeps some tasks and drops an unrecognized one
C9_Witness ==
    /\ kept.done
    /\ statuses.given
    /\ Cardinality(statuses.values) = 2
    /\ Len(kept.tasks) = 2
    /\ \E i \in 1..Len(tasks) : lstrip(tasks[i].raw)[4] = "?"

----------------------------------------------------------------------------
(* append_task *)

\* invocation p writes its file in this step
Writes(p) == pc[p] = "write" /\ pc'[p] = "done"

\* the notes of fs, at any depth, whose file name is <n>.md
NotesNamed(fs, n) == {q \in DOMAIN fs : name(q) = n \o MD}

\* the separator the mutator may add in front of the new line
FreshLine(bs) == IF bs # <<>> /\ bs[Len(bs)] # LF THEN <<LF>> ELSE <<>>

\* C1: append_task on an existing note preserves the note's prior content
\* byte for byte: the file after the append is the prior content, one
\* newline if the prior content was non-empty and did not end in one, the
\* normalized task line and one newline.
C1_PriorContentPreserved ==
    [][\A p \in Procs :
          Writes(p) /\ note_path[p] \in DOMAIN files =>
              files'[note_path[p]] =
                  files[note_path[p]] \o FreshLine(files[note_path[p]])
                      \o EncodeUtf8(task_line[p]) \o <<LF>>]_vars

\* the line of the claim: the text verbatim if it satisfies the grammar
VerbatimLine(t) == IF GrammarNoMinimum(t) THEN t ELSE OpenPrefix \o t

\* the line of the amended claim: the trimmed text if it is a task line
TrimmedLine(t) ==
    LET s == strip(t) IN IF GrammarNonEmptyRest(s) THEN s ELSE OpenPrefix \o s

\* C2 (as claimed): append_task with a note name that matches no file of
\* the vault creates <vault_root>/<name>.md whose whole content is the text
\* verbatim if it satisfies the task-line grammar, else the text prefixed
\* with "- [ ] ", followed by one newline.
C2_Original ==
    [][\A p \in Procs :
          Writes(p) /\ NotesNamed(files, note_name[p]) = {} =>
              files' = WriteFile(files, JoinVault(note_name[p] \o MD),
                                 EncodeUtf8(VerbatimLine(text[p]) \o <<LF>>))]_vars

\* the trimmed name n matches no file of fs: there is no note of that stem
\* and no file at <vault_root>/<n>.md
MatchesNoFile(fs, n) ==
    NotesNamed(fs, n) = {} /\ JoinVault(n \o MD) \notin DOMAIN fs

\* C2 (amended): append_task with a note name that, trimmed, matches no
\* file of the vault (no note of that stem, no file <vault_root>/<name>.md)
\* creates <vault_root>/<trimmed name>.md whose whole content is the
\* normalized line and one newline; the normalized line is the trimmed text
\* if that is a task line, else "- [ ] " and the trimmed text.
C2_CreatesNormalizedNote ==
    [][\A p \in Procs :
          Writes(p) /\ MatchesNoFile(files, strip(note_name[p])) =>
              files' = WriteFile(files, JoinVault(strip(note_name[p]) \o MD),
                                 EncodeUtf8(TrimmedLine(text[p]) \o <<LF>>))]_vars

\* "hello" appended to a note that does not exist
C2_Witness ==
    /\ pc[1] = "done"
    /\ note_name[1] = <<"y">>
    /\ text[1] = <<"h">>
    /\ DOMAIN files = {<<<<"y", ".", "m", "d">>>>}
    /\ files[<<<<"y", ".", "m", "d">>>>] = <<"-", " ", "[", " ", "]", " ", "h", LF>>

\* the target of the claim: the first existing note of that stem in sorted
\* order, else <name>.md directly under the vault root
ClaimedTarget(fs, n) ==
    LET found == NotesNamed(fs, n) IN
    IF found # {}
    THEN CHOOSE q \in found : \A r \in found \ {q} : PathLess(q, r)
    ELSE <<n \o MD>>

\* C3: append_task writes to the first path, in sorted order, of the notes
\* of the vault whose stem is the note name; when there is none it writes
\* <name>.md directly under the vault root, whose directories it creates;
\* it returns the path it wrote.
C3_ResolvesTarget ==
    [][\A p \in Procs :
          Writes(p) =>
              LET target == ClaimedTarget(files, strip(note_name[p])) IN
              /\ ret'[p] = Returned(target)
              /\ parent(target) \in dirs
              /\ target \in DOMAIN files'
              /\ \A q \in DOMAIN files' \ {target} : q \in DOMAIN files /\ files'[q] = files[q]]_vars

\* C4: append_task with a note name or a text that is blank fails with a
\* usage error before any I/O: no file and no directory is created or
\* modified.
C4_BlankInputNoIO ==
    [][\A p \in Procs :
          pc[p] # "idle" /\ (strip(note_name[p]) = <<>> \/ strip(text[p]) = <<>>) =>
              /\ files' = files
              /\ dirs' = dirs
              /\ pc'[p] # "done"]_vars

----------------------------------------------------------------------------
(* Two invocations on one note *)

\* the number of "\n" in s
RECURSIVE CountLF(_)
CountLF(s) ==
    IF s = <<>> THEN 0 ELSE (IF Head(s) = LF THEN 1 ELSE 0) + CountLF(Tail(s))

\* both invocations are complete, on the same note, and both read the note
\* before either wrote it
BothReadFirst ==
    /\ pc[1] = "done" /\ pc[2] = "done"
    /\ note_path[1] = note_path[2]
    /\ existing[1] = existing[2]

\* C5: the read-modify-write is not atomic: when two invocations on the
\* same note both read before either writes, the last writer wins and the
\* file holds only one of the two appended task lines.
C5_LastWriterWins ==
    BothReadFirst =>
        /\ \E p \in Procs :
              files[note_path[p]] = EncodeUtf8(existing[p] \o task_line[p] \o <<LF>>)
        /\ CountLF(files[note_path[1]]) = CountLF(existing[1]) + 1

\* the line of invocation 2 is lost
C5_Witness ==
    /\ BothReadFirst
    /\ task_line[1] # task_line[2]
    /\ files[note_path[1]] = EncodeUtf8(existing[1] \o task_line[1] \o <<LF>>)

----------------------------------------------------------------------------
(* Overdue query, part (b) *)

\* days are ordered by year, then month, then day
DateKey(y, m, d) == y * 10000 + m * 100 + d

\* the number written by the n digits of s that start at position i
DigitsAt(s, i, n) ==
    IF n = 4 THEN 1000 * DigitValue(s[i]) + 100 * DigitValue(s[i + 1])
                  + 10 * DigitValue(s[i + 2]) + DigitValue(s[i + 3])
    ELSE 10 * DigitValue(s[i]) + DigitValue(s[i + 1])

\* at offset k of s stands [[yyyy-mm-dd]]
DateRefAt(s, k) ==
    /\ Len(s) >= k + 14
    /\ s[k + 1] = "[" /\ s[k + 2] = "["
    /\ \A j \in {3, 4, 5, 6, 8, 9, 11, 12} : s[k + j] \in Digits
    /\ s[k + 7] = "-" /\ s[k + 10] = "-"
    /\ s[k + 13] = "]" /\ s[k + 14] = "]"

\* s holds a reference to a day of the calendar that is before now
HasPastDateRef(s, now) ==
    \E k \in 0..Len(s) :
        /\ DateRefAt(s, k)
        /\ LET y == DigitsAt(s, k + 3, 4)
               m == DigitsAt(s, k + 8, 2)
               d == DigitsAt(s, k + 11, 2)
           IN  /\ DateExists(y, m, d)
               /\ DateKey(y, m, d) < DateKey(now[1], now[2], now[3])

\* the lines of the note f
NoteLines(f) == splitlines(read_text_forgiving(files[f]))

ResultSet == {result.tasks[i] : i \in 1..Len(result.tasks)}

\* C10: a task line anywhere in the vault is returned by part (b) of the
\* overdue query iff it holds at least one [[yyyy-mm-dd]] reference that is
\* a day of the calendar strictly before today; references to today, to
\* later days or to no day do not count, and never raise an error.
C10_PastDateBacklinks ==
    result.fn = "extract_tasks_with_past_date_backlinks" =>
        /\ \A f \in DOMAIN files : \A i \in 1..Len(NoteLines(f)) :
              Task(f, i, NoteLines(f)[i]) \in ResultSet
                  <=> /\ GrammarNonEmptyRest(NoteLines(f)[i])
                      /\ HasPastDateRef(NoteLines(f)[i], today)
        /\ \A t \in ResultSet :
              /\ t.file \in DOMAIN files
              /\ t.line_no \in 1..Len(NoteLines(t.file))
              /\ t.raw = NoteLines(t.file)[t.line_no]

\* a line of a/b.md with a later and an earlier day is returned, a line of
\* n.md whose only reference is [[2026-99-99]] is not
C10_Witness ==
    /\ result.fn = "extract_tasks_with_past_date_backlinks"
    /\ today = <<2026, 1, 16>>
    /\ Task(<<Str_a, Str_b_md>>, 1,
            OpenPrefix \o Wikilink(Ymd_2026_01_17) \o Wikilink(Ymd_2026_01_15)) \in ResultSet
    /\ \E i \in 1..Len(NoteLines(<<Str_n_md>>)) :
          /\ NoteLines(<<Str_n_md>>)[i] = OpenPrefix \o Wikilink(Ymd_2026_99_99)
          /\ \A t \in ResultSet : ~(t.file = <<Str_n_md>> /\ t.line_no = i)

----------------------------------------------------------------------------
(* Daily notes, stated on the file names *)

\* nm is yyyy-mm-dd.md and yyyy-mm-dd is a day of the calendar
IsDailyNoteName(nm) ==
    /\ Len(nm) = 13
    /\ SubSeq(nm, 11, 13) = MD
    /\ DateRefAt(Wikilink(SubSeq(nm, 1, 10)), 0)
    /\ DateExists(DigitsAt(nm, 1, 4), DigitsAt(nm, 6, 2), DigitsAt(nm, 9, 2))

\* the day that the daily note name nm names
DayOfName(nm) == DateKey(DigitsAt(nm, 1, 4), DigitsAt(nm, 6, 2), DigitsAt(nm, 9, 2))

TodayKey == DateKey(today[1], today[2], today[3])

\* the task with line i of the file f is in the result, under any spelling
\* of the path of f
Listed(f, i) ==
    \E t \in ResultSet :
        resolve(t.file) = f /\ t.line_no = i /\ t.raw = NoteLines(f)[i]

\* C11: part (a) of the overdue query holds the tasks of every daily note
\* (yyyy-mm-dd.md with a day of the calendar) whose day is strictly before
\* today, wherever the note lies in the vault, and no task of the daily note
\* of today or of a later day.
C11_PastDailyNotes ==
    result.fn = "extract_tasks_from_past_daily_notes" =>
        /\ \A f \in DOMAIN files :
              IsDailyNoteName(name(f)) /\ DayOfName(name(f)) < TodayKey =>
                  \A i \in 1..Len(NoteLines(f)) :
                      GrammarNonEmptyRest(NoteLines(f)[i]) => Listed(f, i)
        /\ \A t \in ResultSet :
              ~(IsDailyNoteName(name(t.file)) /\ DayOfName(name(t.file)) >= TodayKey)

----------------------------------------------------------------------------
(* The status and the priority of a task, stated on positions *)

\* the status of the raw line of a task, None for a line that is no task
StatusOfTask(raw) ==
    IF GrammarNonEmptyRest(raw)
    THEN LET k == CHOOSE j \in 0..Len(raw) : IndentOf(raw, j) /\ HasCheckboxAt(raw, j)
         IN  StatusTable(raw[k + 4])
    ELSE None

\* the raw line of a task carries the priority marker
IsPriorityTask(raw) ==
    \E k \in 0..Len(raw) :
        /\ IndentOf(raw, k) /\ HasCheckboxAt(raw, k)
        /\ Len(raw) >= k + 8
        /\ raw[k + 6] = " " /\ raw[k + 7] = "!" /\ raw[k + 8] = " "

\* the characters of a status name
NameChars(s) ==
    CASE s = "open" -> <<"o", "p", "e", "n">>
      [] s = "done" -> <<"d", "o", "n", "e">>
      [] s = "cancelled" -> <<"c", "a", "n", "c", "e", "l", "l", "e", "d">>
      [] s = "scheduled" -> <<"s", "c", "h", "e", "d", "u", "l", "e", "d">>

\* the statuses that a comma-separated filter names
GivenNames(v) ==
    {s \in {"open", "done", "cancelled", "scheduled"} :
        \E i \in 1..Len(split(v, ",")) : strip(split(v, ",")[i]) = NameChars(s)}

\* the overdue tasks of the vault
OverdueSet ==
    LET over == extract_overdue_tasks(files, dirs, calendar_dir, today) IN
    {over[i] : i \in 1..Len(over)}

\* C12: without a status filter the overdue command lists the overdue
\* tasks of status open only (done, cancelled, scheduled and unrecognized
\* ones are left out); a status filter that is given replaces that default.
C12_OverdueDefaultOpen ==
    result.fn = "_cmd_overdue" =>
        LET wanted == IF args.status.given THEN GivenNames(args.status.value)
                      ELSE {"open"}
        IN  /\ exit_code = 0
            /\ ResultSet = {t \in OverdueSet :
                               /\ StatusOfTask(t.raw) \in wanted
                               /\ args.priority_only => IsPriorityTask(t.raw)}

\* without a filter an open overdue task is listed while a done one and one
\* of no known status are left out
C12_Witness ==
    /\ result.fn = "_cmd_overdue"
    /\ ~args.status.given
    /\ \E t \in ResultSet : StatusOfTask(t.raw) = "open"
    /\ \E t \in OverdueSet \ ResultSet : StatusOfTask(t.raw) = "done"
    /\ \E t \in OverdueSet \ ResultSet : StatusOfTask(t.raw) = None

\* C13: the result of a query that combines sub-results holds no two tasks
\* of the same file and line number: a task line of a past daily note that
\* also carries a reference to a past day is in the overdue result once,
\* whatever the vault and the calendar directory.
C13_NoDuplicates ==
    result.fn \in {"extract_overdue_tasks", "_cmd_overdue"} =>
        \A i, j \in 1..Len(result.tasks) :
            /\ resolve(result.tasks[i].file) = resolve(result.tasks[j].file)
            /\ result.tasks[i].line_no = result.tasks[j].line_no
            => i = j

----------------------------------------------------------------------------
(* The day of a query, stated on day numbers *)

\* the days of the months before month m of a year that is no leap year
DaysBeforeMonth(m) ==
    CASE m = 1 -> 0 [] m = 2 -> 31 [] m = 3 -> 59 [] m = 4 -> 90
      [] m = 5 -> 120 [] m = 6 -> 151 [] m = 7 -> 181 [] m = 8 -> 212
      [] m = 9 -> 243 [] m = 10 -> 273 [] m = 11 -> 304 [] m = 12 -> 334

\* the number of the day d, counted from 0001-01-01
Ordinal(d) ==
    LET y == d[1] - 1 IN
    365 * y + (y \div 4) - (y \div 100) + (y \div 400) + DaysBeforeMonth(d[2])
    + (IF d[2] > 2 /\ IsLeap(d[1]) THEN 1 ELSE 0) + d[3]

\* the day k days from today, for a small k
DayAt(k) ==
    CHOOSE d \in {<<y, m, dd>> : y \in (today[1] - 1)..(today[1] + 1),
                                m \in {1, today[2] - 1, today[2], today[2] + 1, 12},
                                dd \in {1, today[3] - 1, today[3], today[3] + 1,
                                        28, 29, 30, 31}} :
        /\ DateExists(d[1], d[2], d[3])
        /\ Ordinal(d) = Ordinal(today) + k

\* the directory that OT_CALENDAR_DIR names
ClaimedCalendarDir ==
    CASE ~calendar_dir.given -> <<>>
      [] calendar_dir.given /\ calendar_dir.value = <<"a">> -> <<Str_a>>
      [] calendar_dir.given /\ calendar_dir.value = <<"a", "/", ".", ".">> -> <<>>

\* f is the daily note of the day d
IsDailyNoteOf(f, d) ==
    /\ f \in DOMAIN files
    /\ parent(f) = ClaimedCalendarDir
    /\ IsDailyNoteName(name(f))
    /\ DayOfName(name(f)) = DateKey(d[1], d[2], d[3])

\* s holds the reference [[yyyy-mm-dd]] of the day d
HasRefTo(s, d) ==
    \E k \in 0..Len(s) :
        /\ DateRefAt(s, k)
        /\ DateKey(DigitsAt(s, k + 3, 4), DigitsAt(s, k + 8, 2), DigitsAt(s, k + 11, 2))
               = DateKey(d[1], d[2], d[3])

\* the raw line passes the filters of the command
PassesFilters(raw) ==
    /\ args.status.given => StatusOfTask(raw) \in GivenNames(args.status.value)
    /\ args.priority_only => IsPriorityTask(raw)

\* every task of the result is a line of a file of the vault
ResultFromVault ==
    \A t \in ResultSet :
        /\ resolve(t.file) \in DOMAIN files
        /\ t.line_no \in 1..Len(NoteLines(resolve(t.file)))
        /\ t.raw = NoteLines(resolve(t.file))[t.line_no]

\* no line of a file is in the result twice
ResultOnce ==
    \A i, j \in 1..Len(result.tasks) :
        /\ resolve(result.tasks[i].file) = resolve(result.tasks[j].file)
        /\ result.tasks[i].line_no = result.tasks[j].line_no
        => i = j

\* C14: the day query for offset d lists the union of (a) the tasks of the
\* daily note of today+d and (b) the task lines of the other notes that
\* hold the reference [[that day]], the lines of the daily note left out of
\* (b): a task of the daily note is listed once even when it names its own
\* day.  The filters of the command apply to the union.
C14_DayQuery ==
    result.fn = "_cmd_day_offset" =>
        LET day == DayAt(args.offset_days) IN
        /\ exit_code = 0
        /\ ResultFromVault
        /\ ResultOnce
        /\ \A f \in DOMAIN files : \A i \in 1..Len(NoteLines(f)) :
              Listed(f, i) <=>
                  /\ GrammarNonEmptyRest(NoteLines(f)[i])
                  /\ IsDailyNoteOf(f, day) \/ HasRefTo(NoteLines(f)[i], day)
                  /\ PassesFilters(NoteLines(f)[i])

\* yesterday's note holds a task that names its own day and the note n.md
\* links to that day: all are listed
C14_Witness ==
    /\ result.fn = "_cmd_day_offset"
    /\ args.offset_days = -1
    /\ ~args.status.given /\ ~args.priority_only
    /\ \E t \in ResultSet :
          IsDailyNoteOf(t.file, DayAt(-1)) /\ HasRefTo(t.raw, DayAt(-1))
    /\ \E t \in ResultSet :
          IsDailyNoteOf(t.file, DayAt(-1)) /\ ~HasRefTo(t.raw, DayAt(-1))
    /\ \E t \in ResultSet : t.file = <<Str_n_md>>

\* s holds the literal [[stem]] of the note whose backlinks are asked for
HasRefToNote(s) ==
    LET ref == <<"[", "[">> \o stem(name(args.note_path)) \o <<"]", "]">> IN
    \E k \in 0..Len(s) : k + Len(ref) <= Len(s) /\ \A j \in 1..Len(ref) : s[k + j] = ref[j]

\* C15: the backlink query for a note returns exactly the task lines, in
\* the notes of the vault at any depth, that hold the literal [[stem of the
\* note]]; a line that is no task is never returned, and with include_self
\* false no line of the note itself (by resolved path) is returned.
C15_BacklinkedTasks ==
    result.fn = "extract_backlinked_tasks" =>
        /\ ResultFromVault
        /\ ResultOnce
        /\ \A f \in DOMAIN files : \A i \in 1..Len(NoteLines(f)) :
              Listed(f, i) <=>
                  /\ GrammarNonEmptyRest(NoteLines(f)[i])
                  /\ HasRefToNote(NoteLines(f)[i])
                  /\ args.include_note_tasks \/ f # resolve(args.note_path)

\* the backlinks of n.md, spelled through the directory a, without its own
\* tasks: a task of a/n.md that links to n is returned, the task of n.md
\* that links to n and the line "b [[n]]" that is no task are not
C15_Witness ==
    /\ result.fn = "extract_backlinked_tasks"
    /\ args.note_path = <<Str_a, DotDot, Str_n_md>>
    /\ ~args.include_note_tasks
    /\ \E t \in ResultSet : t.file = <<Str_a, Str_n_md>>
    /\ <<Str_n_md>> \in DOMAIN files
    /\ \E i \in 1..Len(NoteLines(<<Str_n_md>>)) :
          /\ GrammarNonEmptyRest(NoteLines(<<Str_n_md>>)[i])
          /\ HasRefToNote(NoteLines(<<Str_n_md>>)[i])
    /\ \E i \in 1..Len(NoteLines(<<Str_a, Str_n_md>>)) :
          /\ ~GrammarNonEmptyRest(NoteLines(<<Str_a, Str_n_md>>)[i])
          /\ HasRefToNote(NoteLines(<<Str_a, Str_n_md>>)[i])

----------------------------------------------------------------------------
(* The commands note and all, stated on the files of the vault *)

\* the file f is a note whose stem is the name asked for, trimmed
IsNoteNamed(f) == f[Len(f)] = strip(args.name) \o MD

\* the tasks of one note are listed together, in the order of their lines
ResultConcatenated ==
    \A i, j \in 1..Len(result.tasks) :
        i < j /\ result.tasks[i].file = result.tasks[j].file
        => /\ result.tasks[i].line_no < result.tasks[j].line_no
           /\ \A k \in i..j : result.tasks[k].file = result.tasks[i].file

C17_AllPaths ==
    result.fn = "main" /\ args.paths # {} =>
        /\ exit_code = 0
        /\ ResultFromVault
        /\ \A f \in DOMAIN files : \A i \in 1..Len(NoteLines(f)) :
              Listed(f, i) <=>
                  /\ \E v \in args.paths : f = JoinVault(v)
                  /\ GrammarNonEmptyRest(NoteLines(f)[i])
                  /\ PassesFilters(NoteLines(f)[i])

\* the stem st is yyyy or yyyy-mm-dd
IsCalendarStem(st) ==
    \/ Len(st) = 4 /\ \A k \in 1..4 : st[k] \in Digits
    \/ Len(st) = 10 /\ DateRefAt(Wikilink(st), 0)

\* [[yyyy]] or [[yyyy-mm-dd]] stands somewhere in the line
HasCalendarRef(s) ==
    \E k \in 0..Len(s) :
        \/ DateRefAt(s, k)
        \/ /\ k + 8 <= Len(s)
           /\ s[k + 1] = "[" /\ s[k + 2] = "["
           /\ \A j \in 3..6 : s[k + j] \in Digits
           /\ s[k + 7] = "]" /\ s[k + 8] = "]"

\* C18: the command all with --unscheduled ends with exit code 0 and lists
\* exactly the tasks of the vault that neither lie in a calendar note nor
\* hold a calendar reference.
C18_AllUnscheduled ==
    result.fn = "main" /\ args.unscheduled_only /\ args.paths = {} =>
        /\ exit_code = 0
        /\ ResultFromVault
        /\ \A f \in DOMAIN files : \A i \in 1..Len(NoteLines(f)) :
              Listed(f, i) <=>
                  /\ ~IsCalendarStem(stem(f[Len(f)]))
                  /\ ~HasCalendarRef(NoteLines(f)[i])
                  /\ GrammarNonEmptyRest(NoteLines(f)[i])
                  /\ PassesFilters(NoteLines(f)[i])

----------------------------------------------------------------------------
(* The filters, stated on the tasks of the list *)

\* the task is in a note named yyyy or yyyy-mm-dd, or its line holds
\* [[yyyy]] or [[yyyy-mm-dd]]
IsScheduled(t) ==
    IsCalendarStem(stem(t.file[Len(t.file)])) \/ HasCalendarRef(t.raw)

\* C19: filter_tasks_unscheduled with the flag off returns the list as it
\* is; with the flag on it returns, in their order, exactly the tasks whose
\* file stem is neither yyyy nor yyyy-mm-dd and whose raw line holds neither
\* [[yyyy]] nor [[yyyy-mm-dd]].
C19_FilterUnscheduled ==
    applied = <<"filter_tasks_unscheduled">> =>
        kept.tasks = IF args.unscheduled_only
                     THEN SelectSeq(tasks, LAMBDA t : ~IsScheduled(t))
                     ELSE tasks

\* the filters of the set S applied to the list ts in one fixed order
InFixedOrder(ts, S) ==
    LET a == IF "filter_tasks_by_statuses" \in S
             THEN filter_tasks_by_statuses(ts, statuses) ELSE ts
        b == IF "filter_tasks_by_priority" \in S
             THEN filter_tasks_by_priority(a, args.priority_only) ELSE a
    IN  IF "filter_tasks_unscheduled" \in S
        THEN filter_tasks_unscheduled(b, args.unscheduled_only) ELSE b

\* C20: whatever the order in which filters were applied to a list, the
\* list at hand is the one that the same filters give in one fixed order,
\* and its tasks stand in the order they had in the input.
C20_FiltersCompose ==
    kept.done /\ applied # <<>> =>
        /\ kept.tasks = InFixedOrder(tasks, Applied)
        /\ \A i \in 1..Len(kept.tasks) :
              /\ kept.tasks[i].line_no \in 1..Len(tasks)
              /\ kept.tasks[i] = tasks[kept.tasks[i].line_no]
        /\ \A i, j \in 1..Len(kept.tasks) :
              i < j => kept.tasks[i].line_no < kept.tasks[j].line_no

\* the three filters, all of them switched on, applied with the unscheduled
\* filter first and the status filter last: of two tasks the second is kept
C20_Witness ==
    /\ applied = <<"filter_tasks_unscheduled", "filter_tasks_by_priority",
                   "filter_tasks_by_statuses">>
    /\ args.unscheduled_only /\ args.priority_only /\ statuses.given
    /\ Len(tasks) = 2
    /\ Len(kept.tasks) = 1
    /\ kept.tasks[1].line_no = 2

----------------------------------------------------------------------------
(* Extraction, stated on the newlines of the text of the file *)

\* the text of the extracted file
FileText == read_text_forgiving(files[args.note_path])

\* the positions of the newlines of the text, and the end of a last line
\* that no newline ends
LineEnds ==
    {i \in 1..Len(FileText) : FileText[i] = LF}
    \cup (IF FileText # <<>> /\ FileText[Len(FileText)] # LF
          THEN {Len(FileText) + 1} ELSE {})

\* the end of line k
LineEnd(k) == CHOOSE i \in LineEnds : Cardinality({j \in LineEnds : j < i}) = k - 1

\* line k of the file, without its newline
FileLine(k) ==
    SubSeq(FileText, (IF k = 1 THEN 1 ELSE LineEnd(k - 1) + 1), LineEnd(k) - 1)

\* C21: extraction from a file gives one Task for every line of the file
\* that is a task line and none for another line, in the order of the file,
\* each with the file, the number of the line counted from 1 and the line
\* without its newline as raw text.
C21_ExtractFromFile ==
    result.fn = "extract_tasks_from_file" =>
        /\ \A k \in 1..Cardinality(LineEnds) :
              (\E t \in ResultSet : t.line_no = k) <=> GrammarNonEmptyRest(FileLine(k))
        /\ \A t \in ResultSet :
              /\ t.file = args.note_path
              /\ t.line_no \in 1..Cardinality(LineEnds)
              /\ t.raw = FileLine(t.line_no)
        /\ \A i, j \in 1..Len(result.tasks) :
              i < j => result.tasks[i].line_no < result.tasks[j].line_no

----------------------------------------------------------------------------
(* The walk, stated on the paths *)

\* the string a is before the string b: at the first position where they
\* differ a has the smaller character, or a ends there and b goes on
StringBefore(a, b) ==
    \E k \in 1..Len(b) :
        /\ \A i \in 1..(k - 1) : i <= Len(a) /\ a[i] = b[i]
        /\ Len(a) = k - 1 \/ (Len(a) >= k /\ CodePoint(a[k]) < CodePoint(b[k]))

\* the path p is before the path q, component by component
ComponentsBefore(p, q) ==
    \E k \in 1..Len(q) :
        /\ \A i \in 1..(k - 1) : i <= Len(p) /\ p[i] = q[i]
        /\ Len(p) = k - 1 \/ (Len(p) >= k /\ StringBefore(p[k], q[k]))

\* the walk of a directory has been made
WalkedDirectory == out.fn = "iter_markdown_files" /\ args.note_path \in dirs

\* C22 (as claimed): the walk of a directory yields the files in the order
\* of their full path strings, and the tasks of a tree are those of its
\* files in that order.
C22_Original ==
    /\ WalkedDirectory =>
          \A i, j \in 1..Len(out.val) :
              i < j => StringBefore(StrOfPath(out.val[i]), StrOfPath(out.val[j]))
    /\ result.fn = "extract_tasks" =>
          \A i, j \in 1..Len(result.tasks) :
              i < j /\ result.tasks[i].file # result.tasks[j].file
              => StringBefore(StrOfPath(result.tasks[i].file),
                              StrOfPath(result.tasks[j].file))

\* C22: the walk of a directory yields the files in the order of their
\* paths compared component by component, each component as a string, the
\* walk being a function of the tree; the tasks of a tree are the task
\* lists of the files of the walk, one after the other in that order.
C22_WalkOrder ==
    /\ WalkedDirectory =>
          /\ out.val = iter_markdown_files(files, dirs, args.note_path)
          /\ \A i, j \in 1..Len(out.val) :
                i < j => ComponentsBefore(out.val[i], out.val[j])
    /\ result.fn = "extract_tasks" =>
          LET mds == iter_markdown_files(files, dirs, args.note_path) IN
          /\ result.tasks
                = Concat([i \in 1..Len(mds) |-> extract_tasks_from_file(files, mds[i])])
          /\ \A i, j \in 1..Len(result.tasks) :
                i < j /\ result.tasks[i].file # result.tasks[j].file
                => ComponentsBefore(result.tasks[i].file, result.tasks[j].file)

\* the walk of a vault with a.md and a/x.md: a/x.md comes first, although
\* the string "a.md" is before the string "a/x.md"
C22_Witness ==
    /\ WalkedDirectory
    /\ \E i, j \in 1..Len(out.val) :
          /\ i < j
          /\ out.val[i] = <<Str_a, Str_x_md>>
          /\ out.val[j] = <<Str_a_md>>
          /\ StringBefore(StrOfPath(out.val[j]), StrOfPath(out.val[i]))

\* the file name ends with ".md" in small or capital letters
HasNoteExtension(nm) ==
    /\ Len(nm) >= 4
    /\ nm[Len(nm) - 2] = "."
    /\ nm[Len(nm) - 1] \in {"m", "M"}
    /\ nm[Len(nm)] \in {"d", "D"}

\* the paths that a walk or a search has yielded
Yielded == {out.val[i] : i \in 1..Len(out.val)}

\* C23: a file whose extension is .md in any case is a note for the walk,
\* both as the single file that is the root and below a directory that is
\* the root, and for the search by name.
C23_ExtensionAnyCase ==
    /\ out.fn = "iter_markdown_files" /\ args.note_path \in DOMAIN files
       /\ HasNoteExtension(args.note_path[Len(args.note_path)])
       => out.val = <<args.note_path>>
    /\ WalkedDirectory =>
          \A f \in DOMAIN files :
              f \in Yielded <=>
                  /\ Len(f) > Len(args.note_path)
                  /\ SubSeq(f, 1, Len(args.note_path)) = args.note_path
                  /\ HasNoteExtension(f[Len(f)])
    /\ out.fn = "find_notes_by_name" /\ <<>> \in dirs /\ strip(args.name) # <<>> =>
          \A f \in DOMAIN files :
              /\ HasNoteExtension(f[Len(f)])
              /\ SubSeq(f[Len(f)], 1, Len(f[Len(f)]) - 3) = strip(args.name)
              => f \in Yielded

\* the file name without the three characters of its extension
StemOfNote(nm) == SubSeq(nm, 1, Len(nm) - 3)

\* C24: the search by name returns, in the order of their paths, exactly
\* the note files of the vault, at any depth, whose stem is the name asked
\* for (trimmed), letter case included; it returns nothing when the name is
\* blank or the vault does not exist.
C24_FindNotesByName ==
    out.fn = "find_notes_by_name" =>
        IF <<>> \notin dirs \/ strip(args.name) = <<>>
        THEN out.val = <<>>
        ELSE /\ \A f \in DOMAIN files :
                    f \in Yielded <=>
                        /\ HasNoteExtension(f[Len(f)])
                        /\ StemOfNote(f[Len(f)]) = strip(args.name)
             /\ Yielded \subseteq DOMAIN files
             /\ \A i, j \in 1..Len(out.val) :
                    i < j => ComponentsBefore(out.val[i], out.val[j])

----------------------------------------------------------------------------
(* Presentation, stated on positions *)

\* at offset k of s stands [[name]], the name not empty and without "]"
RefTokenAt(s, k) ==
    \E n \in 1..Len(s) :
        /\ k + n + 4 <= Len(s)
        /\ s[k + 1] = "[" /\ s[k + 2] = "["
        /\ \A j \in 1..n : s[k + 2 + j] # "]"
        /\ s[k + n + 3] = "]" /\ s[k + n + 4] = "]"

\* C25: the text that _strip_wikilinks returns holds no [[name]] token, no
\* whitespace other than single blanks between words, and is left as it is
\* by a second application.
C25_StripIdempotent ==
    out.fn = "_strip_wikilinks" =>
        /\ \A k \in 0..Len(out.val) : ~RefTokenAt(out.val, k)
        /\ \A i \in 1..Len(out.val) :
              out.val[i] \in Whitespace
              => /\ out.val[i] = " "
                 /\ 1 < i /\ i < Len(out.val)
                 /\ out.val[i + 1] \notin Whitespace
        /\ strip_wikilinks(out.val) = out.val

\* the daily note that the query for the day today + offset_days reads, the
\* calendar directory being the vault root
AskedDailyNote == <<FormatYmd(AddDays(today, args.offset_days)) \o MD>>

\* C26: a read query on a vault directory that does not exist, a walk or a
\* tree extraction from a root that does not exist, and the query for the
\* tasks of a daily note that does not exist all end with an empty result.
C26_BenignNotFound ==
    /\ <<>> \notin dirs =>
          /\ out.fn \in {"iter_markdown_files", "find_notes_by_name"} => out.val = <<>>
          /\ result.fn # "none" => result.tasks = <<>>
    /\ args.command = "read" /\ args.note_path \notin (DOMAIN files) \cup dirs =>
          /\ out.fn = "iter_markdown_files" => out.val = <<>>
          /\ result.fn = "extract_tasks" => result.tasks = <<>>
    /\ result.fn = "extract_tasks_from_today_note" /\ AskedDailyNote \notin DOMAIN files
       => result.tasks = <<>>

\* the tasks of the daily note of today are asked for in a vault that holds
\* other notes but not this one
C26_Witness ==
    /\ result.fn = "extract_tasks_from_today_note"
    /\ args.offset_days = 0
    /\ AskedDailyNote \notin DOMAIN files
    /\ <<Str_2026_01_15_md>> \in DOMAIN files
    /\ result.tasks = <<>>

----------------------------------------------------------------------------
(* append_task and extraction *)

\* the tasks extract_tasks_from_file returns for path in fs, none when the
\* file is absent
TasksIn(fs, path) == IF path \in DOMAIN fs THEN extract_tasks_from_file(fs, path) ELSE <<>>

\* C27: a successful append_task adds exactly one task to the tasks extracted
\* from the target file, and the added task is the last line of the file,
\* with raw text equal to the normalized task line
C27_AppendAddsOneTask ==
    [][Writes(1) =>
          LET before == TasksIn(files, note_path[1])
              after == TasksIn(files', note_path[1])
              lines == splitlines(read_text_forgiving(files'[note_path[1]]))
          IN  /\ Len(after) = Len(before) + 1
              /\ SubSeq(after, 1, Len(before)) = before
              /\ after[Len(after)].raw = task_line[1]
              /\ after[Len(after)].line_no = Len(lines)]_vars

\* C28: the path returned by the first append for a note name is the path
\* returned by every later append for that name, whatever other names are
\* appended to in between
C28_TargetStable ==
    \A i \in 1..Len(returned) : \A j \in 1..Len(returned) :
        i < j /\ returned[i].name = returned[j].name
            => returned[i].path = returned[j].path

----------------------------------------------------------------------------
(* Display of a task *)

\* the three-character checkbox token of a task line
CheckboxToken(ln) == Slice(lstrip(ln), 2, 5)

\* the colour of a status, none for a checkbox of no status
ColourOf(st) ==
    IF st = "open" THEN <<ANSI_RED>>
    ELSE IF st = "done" THEN <<ANSI_GREEN>>
    ELSE IF st \in {"cancelled", "scheduled"} THEN <<ANSI_GREY>>
    ELSE <<>>

\* C29: the display text of a task line begins with the checkbox token of the
\* raw line, and the colour applied to it is the colour of the status of the
\* raw line
C29_DisplayKeepsCheckbox ==
    /\ out.fn = "display_text" => startswith(out.val, CheckboxToken(line))
    /\ out.fn = "colorize_checkbox_prefix" =>
          LET st == task_status_from_line(line) IN
          IF st = None THEN startswith(out.val, CheckboxToken(line))
          ELSE startswith(out.val, ColourOf(st) \o CheckboxToken(line) \o <<ANSI_RESET>>)

----------------------------------------------------------------------------
(* Frame *)

\* a read query is made in this step
Reads == args' # args

\* C30: a step changes the content of a file, or creates a file, only when it
\* is the write of an append and the file is the path the append returns;
\* that write changes the file; no step deletes a file; a read query leaves
\* the files and the directories of the vault unchanged
C30_Frame ==
    [][/\ \A q \in DOMAIN files :
             /\ q \in DOMAIN files'
             /\ files'[q] # files[q] =>
                   \E p \in Procs : Writes(p) /\ ret'[p] = Returned(q)
       /\ \A q \in DOMAIN files' \ DOMAIN files :
             \E p \in Procs : Writes(p) /\ ret'[p] = Returned(q)
       /\ \A p \in Procs :
             Writes(p) =>
                 /\ ~ret'[p].raised
                 /\ ret'[p].value \in DOMAIN files'
                 /\ ret'[p].value \in DOMAIN files =>
                       files'[ret'[p].value] # files[ret'[p].value]
       /\ Reads => files' = files /\ dirs' = dirs]_vars

\* an append has written one of several files and a read query has been made
C30_Witness ==
    /\ returned # <<>>
    /\ Cardinality(DOMAIN files) >= 2
    /\ args.command = "read"

====
